---- MODULE Spec2Model ----
(***************************************************************************)
(* Universal Startup Manager (src/src/main.rs): the desktop-entry parser   *)
(* and writer, the path guard, the collection view and the handlers that   *)
(* mutate user autostart entries.                                          *)
(*                                                                         *)
(* A string is a sequence of one-character strings, so that trimming,      *)
(* splitting, prefix tests and line splitting are computed character by    *)
(* character as the Rust code computes them.                               *)
(***************************************************************************)
EXTENDS Integers, Sequences, FiniteSets, TLC

VARIABLES
    txtRec,     \* text development: the StartupEntry currently held
    txtPrev,    \* text development: the StartupEntry that was last written
    txtOut,     \* text development: the content last written
    txtCycles,  \* text development: write -> parse cycles done so far
    txtMutated, \* text development: toggle or edit has mutated the entry
    txtIn,      \* parser development: << the file's content >>, <<>> elsewhere
    viewIn,     \* view development: the entries and the FilterState handed over
    viewOut,    \* view development: << the indices returned >>
    entries,         \* AppState.entries: the loaded StartupEntry records
    visible_indices, \* AppState.visible_indices (indices count from 1 here)
    filter,          \* AppState.filter
    sort,            \* AppState.sort
    selected,        \* AppState.selected: <<>> for None, <<i>> for Some(i)
    userDir,         \* whether the user autostart directory exists
    disk,            \* the user autostart directory: file name -> node
    tmp,             \* the NamedTempFile of a write in progress: <<>> or <<content>>
    pc,              \* where the handler in progress stands, "idle" between handlers
    op,              \* the locals of the handler in progress
    borrowed,        \* a RefMut of AppState.entries is alive
    result,          \* how the last handler ended
    guardIn,         \* guard development: the path and what the file system holds
    guardOut,        \* guard development: what validate_user_entry_path returned
    trace,           \* the guard calls and file system mutations of the last handler
    snap,            \* entries and file system when the last handler started
    typed,           \* << name, command >> of the dialog's Entry widgets at its response
    nMut             \* mutating handlers and outside changes so far

----------------------------------------------------------------------------
(* String literals of the source.                                          *)

kName == <<"N","a","m","e">>
kExec == <<"E","x","e","c">>
kHidden == <<"H","i","d","d","e","n">>
kAutostartEnabled == <<"X","-","G","N","O","M","E","-","A","u","t","o","s","t","a","r","t","-","e","n","a","b","l","e","d">>
kType == <<"T","y","p","e">>
kTrue == <<"t","r","u","e">>
kFalse == <<"f","a","l","s","e">>
kApplication == <<"A","p","p","l","i","c","a","t","i","o","n">>
kDesktopEntry == <<"D","e","s","k","t","o","p"," ","E","n","t","r","y">>
kUnnamed == <<"U","n","n","a","m","e","d">>
kNameBracket == kName \o <<"[">>
kHeaderLine == <<"[">> \o kDesktopEntry \o <<"]">>
kTypeLine == kType \o <<"=">> \o kApplication

----------------------------------------------------------------------------
(* str helpers of the Rust standard library, as the code uses them.        *)

IsWhitespace(c) == c \in {" ", "\t", "\n", "\r"}

RECURSIVE TrimStart(_)
TrimStart(s) == IF s # <<>> /\ IsWhitespace(Head(s)) THEN TrimStart(Tail(s)) ELSE s

RECURSIVE TrimEnd(_)
TrimEnd(s) == IF s # <<>> /\ IsWhitespace(s[Len(s)]) THEN TrimEnd(SubSeq(s, 1, Len(s) - 1)) ELSE s

Trim(s) == TrimEnd(TrimStart(s))

StartsWith(s, p) == Len(s) >= Len(p) /\ SubSeq(s, 1, Len(p)) = p

EndsWith(s, p) == Len(s) >= Len(p) /\ SubSeq(s, Len(s) - Len(p) + 1, Len(s)) = p

RECURSIVE TrimMatchesStart(_, _)
TrimMatchesStart(s, cs) == IF s # <<>> /\ Head(s) \in cs THEN TrimMatchesStart(Tail(s), cs) ELSE s

RECURSIVE TrimMatchesEnd(_, _)
TrimMatchesEnd(s, cs) == IF s # <<>> /\ s[Len(s)] \in cs THEN TrimMatchesEnd(SubSeq(s, 1, Len(s) - 1), cs) ELSE s

TrimMatches(s, cs) == TrimMatchesEnd(TrimMatchesStart(s, cs), cs)

\* index of the first occurrence of character c in s, 0 when there is none
FirstIndex(s, c) ==
    IF \E i \in 1..Len(s) : s[i] = c
    THEN CHOOSE i \in 1..Len(s) : s[i] = c /\ \A j \in 1..(i - 1) : s[j] # c
    ELSE 0

\* str::split_once: <<>> for None, <<before, after>> for Some
SplitOnce(s, c) ==
    LET i == FirstIndex(s, c)
    IN IF i = 0 THEN <<>> ELSE << SubSeq(s, 1, i - 1), SubSeq(s, i + 1, Len(s)) >>

\* a line ended by "\r\n": the carriage return is not part of the line
StripCr(l) == IF l # <<>> /\ l[Len(l)] = "\r" THEN SubSeq(l, 1, Len(l) - 1) ELSE l

\* index of the first newline of s at or after position from, 0 when there is none
NextNewline(s, from) ==
    IF \E i \in from..Len(s) : s[i] = "\n"
    THEN CHOOSE i \in from..Len(s) : s[i] = "\n" /\ \A j \in from..(i - 1) : s[j] # "\n"
    ELSE 0

\* str::lines: split at every newline; a final empty piece is not a line
RECURSIVE LinesFrom(_, _)
LinesFrom(s, from) ==
    LET nl == NextNewline(s, from)
    IN IF nl = 0
       THEN (IF from > Len(s) THEN <<>> ELSE << SubSeq(s, from, Len(s)) >>)
       ELSE << StripCr(SubSeq(s, from, nl - 1)) >> \o LinesFrom(s, nl + 1)

Lines(s) == LinesFrom(s, 1)

\* [String]::join
RECURSIVE Join(_, _)
Join(ls, sep) ==
    IF ls = <<>> THEN <<>>
    ELSE IF Len(ls) = 1 THEN ls[1]
    ELSE ls[1] \o sep \o Join(Tail(ls), sep)

----------------------------------------------------------------------------
(* Characters: code points, ASCII classes and case, as char and str give   *)
(* them.                                                                   *)

AsciiDigits == << "0", "1", "2", "3", "4", "5", "6", "7", "8", "9" >>

AsciiUpper ==
    << "A", "B", "C", "D", "E", "F", "G", "H", "I", "J", "K", "L", "M",
       "N", "O", "P", "Q", "R", "S", "T", "U", "V", "W", "X", "Y", "Z" >>

AsciiLower ==
    << "a", "b", "c", "d", "e", "f", "g", "h", "i", "j", "k", "l", "m",
       "n", "o", "p", "q", "r", "s", "t", "u", "v", "w", "x", "y", "z" >>

IndexIn(seq, c) == CHOOSE i \in 1..Len(seq) : seq[i] = c

InSeq(seq, c) == \E i \in 1..Len(seq) : seq[i] = c

\* the code point of a character
Code(c) ==
    IF InSeq(AsciiLower, c) THEN 96 + IndexIn(AsciiLower, c)
    ELSE IF InSeq(AsciiUpper, c) THEN 64 + IndexIn(AsciiUpper, c)
    ELSE IF InSeq(AsciiDigits, c) THEN 47 + IndexIn(AsciiDigits, c)
    ELSE CASE c = "\t" -> 9
           [] c = "\n" -> 10
           [] c = "\r" -> 13
           [] c = " " -> 32
           [] c = "!" -> 33
           [] c = "#" -> 35
           [] c = "$" -> 36
           [] c = "-" -> 45
           [] c = "." -> 46
           [] c = "=" -> 61
           [] c = "[" -> 91
           [] c = "]" -> 93
           [] c = "_" -> 95
           [] c = "Ä" -> 196
           [] c = "ä" -> 228

IsAsciiUpper(c) == Code(c) >= 65 /\ Code(c) <= 90
IsAsciiLower(c) == Code(c) >= 97 /\ Code(c) <= 122
IsAsciiDigit(c) == Code(c) >= 48 /\ Code(c) <= 57
IsAsciiAlphanumeric(c) == IsAsciiUpper(c) \/ IsAsciiLower(c) \/ IsAsciiDigit(c)

ToAsciiLowercase(c) == IF IsAsciiUpper(c) THEN AsciiLower[IndexIn(AsciiUpper, c)] ELSE c

\* char::to_lowercase, on the characters of the model
ToLowercaseChar(c) == IF c = "Ä" THEN "ä" ELSE ToAsciiLowercase(c)

\* str::to_lowercase
ToLowercase(s) == [i \in 1..Len(s) |-> ToLowercaseChar(s[i])]

\* Ord::cmp of two strings: -1, 0 or 1, by code point from the left
RECURSIVE CmpStr(_, _)
CmpStr(a, b) ==
    IF a = <<>> THEN (IF b = <<>> THEN 0 ELSE -1)
    ELSE IF b = <<>> THEN 1
    ELSE IF Code(Head(a)) < Code(Head(b)) THEN -1
    ELSE IF Code(Head(a)) > Code(Head(b)) THEN 1
    ELSE CmpStr(Tail(a), Tail(b))

\* Ord::cmp of two bools
CmpBool(a, b) == IF a = b THEN 0 ELSE IF b THEN -1 ELSE 1

\* Ordering::then_with
ThenWith(first, second) == IF first # 0 THEN first ELSE second

kDotDesktop == <<".", "d", "e", "s", "k", "t", "o", "p">>
kEntry == <<"e", "n", "t", "r", "y">>

RECURSIVE SlugifyFromEvery(_, _)
\* mutant: a hyphen is pushed for every separator character
SlugifyFromEvery(name, out) ==
    IF name = <<>> THEN out
    ELSE LET c == Head(name)
         IN IF IsAsciiAlphanumeric(c)
            THEN SlugifyFromEvery(Tail(name), Append(out, ToAsciiLowercase(c)))
            ELSE IF IsWhitespace(c) \/ c = "-" \/ c = "_"
            THEN SlugifyFromEvery(Tail(name), Append(out, "-"))
            ELSE SlugifyFromEvery(Tail(name), out)

RECURSIVE SlugifyFrom(_, _)
SlugifyFrom(name, out) ==
    IF name = <<>> THEN out
    ELSE LET c == Head(name)
         IN IF IsAsciiAlphanumeric(c)
            THEN SlugifyFrom(Tail(name), Append(out, ToAsciiLowercase(c)))
            ELSE IF IsWhitespace(c) \/ c = "-" \/ c = "_"
            THEN SlugifyFrom(Tail(name), IF EndsWith(out, <<"-">>) THEN out ELSE Append(out, "-"))
            ELSE SlugifyFrom(Tail(name), out)

slugify(name) ==
    LET out == SlugifyFrom(name, <<>>)
    IN IF out = <<>> THEN kEntry ELSE out

----------------------------------------------------------------------------
(* parse_desktop_file: the line scan.  Option<String> is <<>> for None and *)
(* <<g>> for Some(g).                                                      *)

ParseInit ==
    [ name |-> kUnnamed, command |-> <<>>, enabled |-> TRUE,
      extra |-> <<>>, localized_names |-> <<>>, entry_comments |-> <<>>,
      preamble |-> <<>>, other_groups |-> <<>>,
      current_group |-> <<>>, current_other |-> <<>> ]

IsHeader(trimmed) == StartsWith(trimmed, <<"[">>) /\ EndsWith(trimmed, <<"]">>)

\* a header line closes the section that was open
CloseGroup(st) ==
    IF st.current_group # <<>>
    THEN LET group == st.current_group[1]
         IN [st EXCEPT
               !.other_groups = IF group # kDesktopEntry /\ st.current_other # <<>>
                                THEN Append(@, st.current_other) ELSE @,
               !.current_other = <<>>,
               !.current_group = <<>>]
    ELSE [st EXCEPT !.preamble = @ \o st.current_other, !.current_other = <<>>]

\* mutant: a [Desktop Entry] header starts the entry afresh
OpenGroupAfresh(st, raw_line, trimmed) ==
    LET group_name == TrimMatches(trimmed, {"[", "]"})
    IN IF group_name = kDesktopEntry
       THEN [st EXCEPT !.current_group = <<group_name>>,
                       !.name = kUnnamed, !.command = <<>>, !.enabled = TRUE]
       ELSE [st EXCEPT !.current_group = <<group_name>>,
                       !.current_other = Append(@, raw_line)]

\* and opens the section it names
OpenGroup(st, raw_line, trimmed) ==
    LET group_name == TrimMatches(trimmed, {"[", "]"})
    IN [st EXCEPT
          !.current_group = <<group_name>>,
          !.current_other = IF group_name = kDesktopEntry THEN @ ELSE Append(@, raw_line)]

\* mutant: X-GNOME-Autostart-enabled cannot enable what Hidden has disabled
ParseKeyValueReconciled(st, key, value) ==
    IF key = kName THEN [st EXCEPT !.name = value]
    ELSE IF StartsWith(key, kNameBracket)
    THEN LET locale == SubSeq(key, Len(kNameBracket) + 1, Len(key))
         IN IF EndsWith(locale, <<"]">>)
            THEN [st EXCEPT !.localized_names =
                     Append(@, << SubSeq(locale, 1, Len(locale) - 1), value >>)]
            ELSE st
    ELSE IF key = kExec THEN [st EXCEPT !.command = value]
    ELSE IF key = kHidden THEN [st EXCEPT !.enabled = (value # kTrue)]
    ELSE IF key = kAutostartEnabled THEN [st EXCEPT !.enabled = (@ /\ value = kTrue)]
    ELSE [st EXCEPT !.extra = Append(@, << key, value >>)]

\* the key dispatch inside [Desktop Entry]
ParseKeyValue(st, key, value) ==
    IF key = kName THEN [st EXCEPT !.name = value]
    ELSE IF StartsWith(key, kNameBracket)
    THEN LET locale == SubSeq(key, Len(kNameBracket) + 1, Len(key))
         IN IF EndsWith(locale, <<"]">>)
            THEN [st EXCEPT !.localized_names =
                     Append(@, << SubSeq(locale, 1, Len(locale) - 1), value >>)]
            ELSE st
    ELSE IF key = kExec THEN [st EXCEPT !.command = value]
    ELSE IF key = kHidden THEN [st EXCEPT !.enabled = (value # kTrue)]
    ELSE IF key = kAutostartEnabled THEN [st EXCEPT !.enabled = (value = kTrue)]
    ELSE [st EXCEPT !.extra = Append(@, << key, value >>)]

\* a line inside [Desktop Entry]
ParseEntryLine(st, raw_line, trimmed) ==
    IF StartsWith(trimmed, <<"#">>) \/ trimmed = <<>>
    THEN [st EXCEPT !.entry_comments = Append(@, raw_line)]
    ELSE LET pair == SplitOnce(raw_line, "=")
         IN IF pair = <<>> THEN st
            ELSE ParseKeyValue(st, Trim(pair[1]), Trim(pair[2]))

\* mutant: the lines of every section are read as [Desktop Entry] lines
ParseLineAnySection(st, raw_line) ==
    LET trimmed == Trim(raw_line)
    IN IF IsHeader(trimmed) THEN OpenGroup(CloseGroup(st), raw_line, trimmed)
       ELSE IF st.current_group # <<>>
       THEN ParseEntryLine(st, raw_line, trimmed)
       ELSE [st EXCEPT !.preamble = Append(@, raw_line)]

\* the body of the loop over content.lines()
ParseLine(st, raw_line) ==
    LET trimmed == Trim(raw_line)
    IN IF IsHeader(trimmed) THEN OpenGroup(CloseGroup(st), raw_line, trimmed)
       ELSE IF st.current_group # <<>>
       THEN IF st.current_group[1] = kDesktopEntry
            THEN ParseEntryLine(st, raw_line, trimmed)
            ELSE [st EXCEPT !.current_other = Append(@, raw_line)]
       ELSE [st EXCEPT !.preamble = Append(@, raw_line)]

RECURSIVE ParseLoop(_, _, _)
ParseLoop(lines, i, st) ==
    IF i > Len(lines) THEN st ELSE ParseLoop(lines, i + 1, ParseLine(st, lines[i]))

\* after the loop: flush the last section
ParseFlush(st) ==
    IF st.current_group # <<>>
    THEN IF st.current_group[1] # kDesktopEntry /\ st.current_other # <<>>
         THEN [st EXCEPT !.other_groups = Append(@, st.current_other)]
         ELSE st
    ELSE IF st.current_other # <<>>
         THEN [st EXCEPT !.preamble = @ \o st.current_other]
         ELSE st

\* the fields parse_desktop_file computes from the file's content
ParseContent(content) ==
    LET st == ParseFlush(ParseLoop(Lines(content), 1, ParseInit))
    IN [ name |-> st.name, command |-> st.command, enabled |-> st.enabled,
         extra |-> st.extra, localized_names |-> st.localized_names,
         entry_comments |-> st.entry_comments, preamble |-> st.preamble,
         other_groups |-> st.other_groups ]

----------------------------------------------------------------------------
(* write_desktop_entry: the lines and the content it writes.               *)

LastIsEmpty(ls, dflt) == IF ls = <<>> THEN dflt ELSE ls[Len(ls)] = <<>>

PreambleLines(entry) ==
    entry.preamble \o (IF ~LastIsEmpty(entry.preamble, TRUE) THEN << <<>> >> ELSE <<>>)

LocalizedNameLines(localized_names) ==
    [i \in 1..Len(localized_names) |->
        kNameBracket \o localized_names[i][1] \o <<"]", "=">> \o localized_names[i][2]]

\* mutant: Hidden written with the polarity of enabled instead of its complement
EnabledLinesSamePolarity(enabled) ==
    << kAutostartEnabled \o <<"=">> \o (IF enabled THEN kTrue ELSE kFalse),
       kHidden \o <<"=">> \o (IF enabled THEN kTrue ELSE kFalse) >>

EnabledLines(enabled) ==
    << kAutostartEnabled \o <<"=">> \o (IF enabled THEN kTrue ELSE kFalse),
       kHidden \o <<"=">> \o (IF enabled THEN kFalse ELSE kTrue) >>

known == {kName, kExec, kHidden, kAutostartEnabled, kType}

\* mutant: the check for locale-suffixed Name[ keys is forgotten
ExtraKeptKnownOnly(pair) == ~(pair[1] \in known)

ExtraKept(pair) == ~(pair[1] \in known \/ StartsWith(pair[1], kNameBracket))

ExtraLines(extra) ==
    LET kept == SelectSeq(extra, ExtraKept)
    IN [i \in 1..Len(kept) |-> kept[i][1] \o <<"=">> \o kept[i][2]]

\* mutant: the section comments are written where the section ends instead
\* of directly after the header
EntryLinesCommentsLast(entry) ==
    PreambleLines(entry)
    \o << kHeaderLine >>
    \o << kTypeLine, kName \o <<"=">> \o entry.name >>
    \o LocalizedNameLines(entry.localized_names)
    \o << kExec \o <<"=">> \o entry.command >>
    \o EnabledLines(entry.enabled)
    \o ExtraLines(entry.extra)
    \o entry.entry_comments

EntryLines(entry) ==
    PreambleLines(entry)
    \o << kHeaderLine >>
    \o entry.entry_comments
    \o << kTypeLine, kName \o <<"=">> \o entry.name >>
    \o LocalizedNameLines(entry.localized_names)
    \o << kExec \o <<"=">> \o entry.command >>
    \o EnabledLines(entry.enabled)
    \o ExtraLines(entry.extra)

RECURSIVE GroupLines(_, _)
GroupLines(groups, i) ==
    IF i > Len(groups) THEN <<>>
    ELSE groups[i]
         \o (IF i # Len(groups) /\ ~LastIsEmpty(groups[i], TRUE) THEN << <<>> >> ELSE <<>>)
         \o GroupLines(groups, i + 1)

RenderLines(entry) ==
    LET head == EntryLines(entry)
    IN head
       \o (IF entry.other_groups # <<>> /\ ~LastIsEmpty(head, TRUE) THEN << <<>> >> ELSE <<>>)
       \o GroupLines(entry.other_groups, 1)

RenderContent(entry) ==
    LET lines == RenderLines(entry)
    IN IF LastIsEmpty(lines, FALSE)
       THEN Join(lines, <<"\n">>)
       ELSE Join(lines, <<"\n">>) \o <<"\n">>

----------------------------------------------------------------------------
(* The collection view: apply_filter and sort_indices.  Indices count from *)
(* 1 here and from 0 in the source.                                        *)

UserAutostart == "UserAutostart"
SystemAutostart == "SystemAutostart"

SortKeys == { "NameAsc", "NameDesc", "StatusEnabledFirst", "SourceUserFirst", "SourceSystemFirst" }

FilterDefault ==
    [ show_enabled |-> TRUE, show_disabled |-> TRUE, show_user |-> TRUE, show_system |-> TRUE ]

\* mutant: with both state toggles off no state passes
FilterPassesStrict(entry, f) ==
    LET state_ok == \/ (f.show_enabled /\ entry.enabled)
                    \/ (f.show_disabled /\ ~entry.enabled)
        source_ok == \/ (f.show_user /\ entry.source = UserAutostart)
                     \/ (f.show_system /\ entry.source = SystemAutostart)
                     \/ (~f.show_user /\ ~f.show_system)
    IN state_ok /\ source_ok

\* mutant: every entry that is not the user's counts as a system entry
FilterPassesOtherAsSystem(entry, f) ==
    LET state_ok == \/ (f.show_enabled /\ entry.enabled)
                    \/ (f.show_disabled /\ ~entry.enabled)
                    \/ (~f.show_enabled /\ ~f.show_disabled)
        source_ok == \/ (f.show_user /\ entry.source = UserAutostart)
                     \/ (f.show_system /\ entry.source # UserAutostart)
                     \/ (~f.show_user /\ ~f.show_system)
    IN state_ok /\ source_ok

FilterPasses(entry, f) ==
    LET state_ok == \/ (f.show_enabled /\ entry.enabled)
                    \/ (f.show_disabled /\ ~entry.enabled)
                    \/ (~f.show_enabled /\ ~f.show_disabled)
        source_ok == \/ (f.show_user /\ entry.source = UserAutostart)
                     \/ (f.show_system /\ entry.source = SystemAutostart)
                     \/ (~f.show_user /\ ~f.show_system)
    IN state_ok /\ source_ok

apply_filter(es, f) ==
    SelectSeq([i \in 1..Len(es) |-> i], LAMBDA i : FilterPasses(es[i], f))

\* mutant: an entry with a localized name is compared by the first of them
CmpNameLocalized(ea, eb) ==
    LET Shown(e) == IF e.localized_names # <<>> THEN e.localized_names[1][2] ELSE e.name
    IN CmpStr(ToLowercase(Shown(ea)), ToLowercase(Shown(eb)))

CmpName(ea, eb) == CmpStr(ToLowercase(ea.name), ToLowercase(eb.name))

\* mutant: the state and source comparisons take their operands unswapped
CompareUnswapped(es, key, a, b) ==
    LET ea == es[a]
        eb == es[b]
    IN CASE key = "NameAsc" -> CmpName(ea, eb)
         [] key = "NameDesc" -> CmpName(eb, ea)
         [] key = "StatusEnabledFirst" ->
                ThenWith(CmpBool(ea.enabled, eb.enabled), CmpName(ea, eb))
         [] key = "SourceUserFirst" ->
                ThenWith(CmpBool(ea.source = UserAutostart, eb.source = UserAutostart),
                         CmpName(ea, eb))
         [] key = "SourceSystemFirst" ->
                ThenWith(CmpBool(ea.source = SystemAutostart, eb.source = SystemAutostart),
                         CmpName(ea, eb))

\* the closure handed to sort_by
Compare(es, key, a, b) ==
    LET ea == es[a]
        eb == es[b]
    IN CASE key = "NameAsc" -> CmpName(ea, eb)
         [] key = "NameDesc" -> CmpName(eb, ea)
         [] key = "StatusEnabledFirst" ->
                ThenWith(CmpBool(eb.enabled, ea.enabled), CmpName(ea, eb))
         [] key = "SourceUserFirst" ->
                ThenWith(CmpBool(eb.source = UserAutostart, ea.source = UserAutostart),
                         CmpName(ea, eb))
         [] key = "SourceSystemFirst" ->
                ThenWith(CmpBool(eb.source = SystemAutostart, ea.source = SystemAutostart),
                         CmpName(ea, eb))

\* slice::sort_by is a stable sort: x goes after every element not greater than it
InsertStable(es, key, sorted, x) ==
    LET after == { i \in 1..Len(sorted) : Compare(es, key, sorted[i], x) > 0 }
        at == IF after = {} THEN Len(sorted) + 1
              ELSE CHOOSE i \in after : \A j \in after : i <= j
    IN SubSeq(sorted, 1, at - 1) \o << x >> \o SubSeq(sorted, at, Len(sorted))

RECURSIVE SortFrom(_, _, _, _, _)
SortFrom(es, key, indices, i, sorted) ==
    IF i > Len(indices) THEN sorted
    ELSE SortFrom(es, key, indices, i + 1, InsertStable(es, key, sorted, indices[i]))

sort_indices(es, indices, key) == SortFrom(es, key, indices, 1, <<>>)

\* what rebuild_list stores in visible_indices
VisibleOf(es, f, key) == sort_indices(es, apply_filter(es, f), key)

----------------------------------------------------------------------------
(* The file system the program sees.  A path is a directory and a file     *)
(* name; a node of the user autostart directory is absent, a regular file  *)
(* (with its content, or unreadable as text), a symbolic link (to a file   *)
(* with that content) or a directory.                                      *)

UserDirName == "user"
SystemDirName == "system"

Absent == [ kind |-> "absent" ]
File(content) == [ kind |-> "file", content |-> content ]
Symlink(content) == [ kind |-> "symlink", content |-> content ]
Unreadable == [ kind |-> "unreadable" ]
Directory == [ kind |-> "dir" ]

PathOf(dir, file) == [ dir |-> dir, file |-> file ]

\* dir.join(format!("{}.desktop", slugify(name)))
SlugPath(name) == PathOf(UserDirName, slugify(name) \o kDotDesktop)

\* Path::extension: what follows the last dot of the file name, <<>> for None
Extension(file) ==
    LET dots == { i \in 1..Len(file) : file[i] = "." }
        last == CHOOSE i \in dots : \A j \in dots : j <= i
    IN IF dots = {} THEN <<>>
       ELSE IF last = 1 THEN <<>>
       ELSE << SubSeq(file, last + 1, Len(file)) >>

kDesktop == <<"d", "e", "s", "k", "t", "o", "p">>

\* fs::read_to_string: <<>> for Err, <<content>> for Ok
ReadToString(node) ==
    IF node.kind \in {"file", "symlink"} THEN << node.content >> ELSE <<>>

\* parse_desktop_file: <<>> for Err, <<entry>> for Ok
parse_desktop_file(path, node, source) ==
    LET content == ReadToString(node)
    IN IF content = <<>> THEN <<>>
       ELSE LET f == ParseContent(content[1])
            IN << [ name |-> f.name, command |-> f.command, enabled |-> f.enabled,
                    source |-> source, path |-> << path >>,
                    extra |-> f.extra, localized_names |-> f.localized_names,
                    entry_comments |-> f.entry_comments, preamble |-> f.preamble,
                    other_groups |-> f.other_groups ] >>

\* mutant: the first file that fails to parse ends the loop
RECURSIVE LoadListedAborting(_, _, _, _)
LoadListedAborting(dir, nodes, listing, source) ==
    IF listing = <<>> THEN <<>>
    ELSE LET file == Head(listing)
             item == parse_desktop_file(PathOf(dir, file), nodes[file], source)
         IN IF Extension(file) # << kDesktop >>
            THEN LoadListedAborting(dir, nodes, Tail(listing), source)
            ELSE IF item = <<>> THEN <<>>
            ELSE item \o LoadListedAborting(dir, nodes, Tail(listing), source)

\* the loop of load_autostart_dir over the directory listing, in listing order
RECURSIVE LoadListed(_, _, _, _)
LoadListed(dir, nodes, listing, source) ==
    IF listing = <<>> THEN <<>>
    ELSE LET file == Head(listing)
             rest == LoadListed(dir, nodes, Tail(listing), source)
         IN IF Extension(file) # << kDesktop >> THEN rest
            ELSE parse_desktop_file(PathOf(dir, file), nodes[file], source) \o rest

\* the orders in which fs::read_dir may list a directory (the order is unspecified)
Listings(nodes) ==
    LET present == { f \in DOMAIN nodes : nodes[f].kind # "absent" }
    IN { l \in [1..Cardinality(present) -> present] :
            \A i, j \in 1..Cardinality(present) : i # j => l[i] # l[j] }

load_autostart_dir(dir, exists, nodes, listing, source) ==
    IF ~exists THEN <<>> ELSE LoadListed(dir, nodes, listing, source)

\* fs::symlink_metadata: <<>> for Err, << file type >> for Ok; it fails when
\* nothing is at the path and when the directory may not be searched
symlink_metadata(node, searchable) ==
    IF ~searchable \/ node.kind = "absent" THEN <<>>
    ELSE IF node.kind = "unreadable" THEN << "file" >>
    ELSE << node.kind >>

\* validate_user_entry_path: canon maps a directory to << its canonical form >>
\* or to <<>> when canonicalize fails, meta is what symlink_metadata returned
validate_user_entry_path(path, canon, meta) ==
    IF canon[UserDirName] = <<>> THEN [ ok |-> FALSE, err |-> "Resolving base" ]
    ELSE IF canon[path.dir] = <<>> THEN [ ok |-> FALSE, err |-> "Resolving parent" ]
    ELSE IF canon[path.dir] # canon[UserDirName]
         THEN [ ok |-> FALSE, err |-> "Entry path is outside user autostart dir" ]
    ELSE IF meta # <<>> /\ meta[1] = "symlink"
         THEN [ ok |-> FALSE, err |-> "Refusing to operate on symlinked entry" ]
    ELSE IF meta # <<>> /\ meta[1] # "file"
         THEN [ ok |-> FALSE, err |-> "Entry path is not a regular file" ]
    ELSE [ ok |-> TRUE, path |-> path ]

\* the names under which the user autostart directory holds nodes
fA == <<"a">> \o kDotDesktop
fB == <<"b">> \o kDotDesktop
UserFiles == { fA, fB }

NoOp == [ kind |-> "none" ]
EmptyDisk == [ f \in UserFiles |-> Absent ]

txtVars == << txtRec, txtPrev, txtOut, txtCycles, txtMutated, txtIn >>
appVars == << entries, visible_indices, filter, sort, selected, userDir, disk, tmp,
              pc, op, borrowed, result, trace, snap, typed, nMut >>
guardVars == << guardIn, guardOut >>
fnVars == << viewIn, viewOut >>
vars == << txtVars, appVars, guardVars, fnVars >>

\* the variables of the other developments, at rest
TxtAtRest ==
    /\ txtRec = <<>>
    /\ txtPrev = <<>>
    /\ txtOut = <<>>
    /\ txtCycles = 0
    /\ txtMutated = FALSE
    /\ txtIn = <<>>

AppAtRest ==
    /\ entries = <<>>
    /\ visible_indices = <<>>
    /\ filter = FilterDefault
    /\ sort = "NameAsc"
    /\ selected = <<>>
    /\ userDir = FALSE
    /\ disk = EmptyDisk
    /\ tmp = <<>>
    /\ pc = "idle"
    /\ op = NoOp
    /\ borrowed = FALSE
    /\ typed = <<>>
    /\ result = "none"
    /\ trace = <<>>
    /\ snap = <<>>
    /\ nMut = 0

GuardAtRest ==
    /\ guardIn = <<>>
    /\ guardOut = <<>>

ViewAtRest ==
    /\ viewIn = <<>>
    /\ viewOut = <<>>

----------------------------------------------------------------------------
(* Bounds and input pools of the text development.                         *)

MaxLines == 3
MaxCycles == 2

lOther == <<"[", "O", "]">>
lName == kName \o <<"=", "a">>
lNameSpaced == <<" ">> \o kName \o <<" ", "=", " ", "z", " ">>
lNameDe == kNameBracket \o <<"d", "e", "]", "=", "b">>
lNameOpen == kNameBracket \o <<"x", "=", "b">>
lExec == kExec \o <<"=", "c">>
lHiddenTrue == kHidden \o <<"=">> \o kTrue
lAutostartTrue == kAutostartEnabled \o <<"=">> \o kTrue
lX1 == <<"X", "=", "1">>
lX2 == <<"X", "=", "2">>
lComment == <<"#", "c">>
lBlank == <<>>
lJunk == <<"j">>

\* the lines a file is made of, in three families: the dedicated keys, the
\* content that is preserved verbatim, and the lines the parser tolerates
LinePools ==
    { { kHeaderLine, lName, lExec, lHiddenTrue, lAutostartTrue, kTypeLine },
      { kHeaderLine, lOther, lComment, lBlank, lX1, lX2 },
      { kHeaderLine, lOther, lNameDe, lNameOpen, lNameSpaced, lJunk } }

\* what the name and command text fields of the dialogs may hold (one line each)
NamePool == { <<"B">> }
CommandPool == { <<"c">> }

SeqsUpTo(S, n) == UNION { [1..k -> S] : k \in 0..n }

\* a file's content: every line followed by a newline
RECURSIVE Unlines(_)
Unlines(ls) == IF ls = <<>> THEN <<>> ELSE Head(ls) \o <<"\n">> \o Unlines(Tail(ls))

TextInputs == UNION { { Unlines(ls) : ls \in SeqsUpTo(pool, MaxLines) } : pool \in LinePools }

\* the StartupEntry create_user_entry builds, without source and path
CreatedFields(name, command) ==
    [ name |-> name, command |-> command, enabled |-> TRUE,
      extra |-> <<>>, localized_names |-> <<>>, entry_comments |-> <<>>,
      preamble |-> <<>>, other_groups |-> <<>> ]

----------------------------------------------------------------------------
(* The text development: a StartupEntry obtained by parsing a file or by   *)
(* create_user_entry is written and parsed back, as it is, or mutated as   *)
(* toggle_selected and edit_user_entry mutate it.                          *)

TxtInit ==
    /\ txtRec \in { ParseContent(t) : t \in TextInputs }
                  \cup { CreatedFields(n, c) : n \in NamePool, c \in CommandPool }
    /\ txtPrev = txtRec
    /\ txtOut = <<>>
    /\ txtCycles = 0
    /\ txtMutated = FALSE
    /\ txtIn = <<>>
    /\ AppAtRest
    /\ GuardAtRest
    /\ ViewAtRest

\* write_desktop_entry(entry) followed by parse_desktop_file of what was written
WriteThenParse(entry) ==
    /\ txtOut' = RenderContent(entry)
    /\ txtRec' = ParseContent(txtOut')
    /\ txtPrev' = entry
    /\ txtCycles' = txtCycles + 1
    /\ UNCHANGED << txtIn, appVars, guardVars, fnVars >>

\* the entry is written back as it is
TxtCycle ==
    /\ txtCycles < MaxCycles
    /\ WriteThenParse(txtRec)
    /\ UNCHANGED txtMutated

\* toggle_selected: entry.enabled = !entry.enabled, write, reload
TxtToggle ==
    /\ txtCycles < MaxCycles
    /\ ~txtMutated
    /\ WriteThenParse([txtRec EXCEPT !.enabled = ~@])
    /\ txtMutated' = TRUE

\* edit_user_entry: updated.name, updated.command, write, reload
TxtEdit ==
    /\ txtCycles < MaxCycles
    /\ ~txtMutated
    /\ \E n \in NamePool, c \in CommandPool :
          WriteThenParse([txtRec EXCEPT !.name = n, !.command = c])
    /\ txtMutated' = TRUE

TxtNext == TxtCycle \/ TxtToggle \/ TxtEdit

SpecText == TxtInit /\ [][TxtNext]_vars

----------------
(* The writer development: write_desktop_entry applied to any StartupEntry *)
(* a caller may hand it (the fields are plain vectors, and the tests of    *)
(* the source build entries by hand).                                      *)

MaxExtra == 2

ExtraPairPool ==
    { << <<"X">>, <<"1">> >>,
      << <<"X">>, <<"2">> >>,
      << kName, <<"z">> >>,
      << kNameBracket \o <<"f", "r", "]">>, <<"z">> >>,
      << kExec, <<"z">> >>,
      << kHidden, kTrue >>,
      << kAutostartEnabled, kFalse >>,
      << kType, <<"L">> >> }

OtherGroupsPool ==
    { <<>>,
      << << <<"[", "O", "]">> >> >>,
      << << <<"[", "O", "]">>, <<"k", "=", "v">> >>, << <<"[", "P", "]">>, <<>> >> >>,
      << << <<"[", "O", "]">>, <<>> >>, << <<"[", "P", "]">>, <<>>, <<>> >> >> }

\* localized names and section comments: none, or one of each
NamesAndCommentsPool ==
    { << <<>>, <<>> >>,
      << << << <<"d", "e">>, <<"b">> >> >>, << lComment >> >> }

RenderInputs ==
    { [ name |-> <<"a">>, command |-> <<"c">>, enabled |-> en,
        extra |-> ex, localized_names |-> nc[1], entry_comments |-> nc[2],
        preamble |-> pre, other_groups |-> og ] :
      en \in BOOLEAN, ex \in SeqsUpTo(ExtraPairPool, MaxExtra),
      nc \in NamesAndCommentsPool,
      pre \in { <<>>, << <<"#", "p">> >> },
      og \in OtherGroupsPool }

RenderInit ==
    /\ txtRec \in RenderInputs
    /\ txtPrev = txtRec
    /\ txtOut = <<>>
    /\ txtCycles = 0
    /\ txtMutated = FALSE
    /\ txtIn = <<>>
    /\ AppAtRest
    /\ GuardAtRest
    /\ ViewAtRest

\* one write_desktop_entry of the entry, parsed back
RenderStep ==
    /\ txtCycles = 0
    /\ WriteThenParse(txtRec)
    /\ UNCHANGED txtMutated

RenderNext == RenderStep

SpecRender == RenderInit /\ [][RenderNext]_vars

----------------------------------------------------------------------------
(* The parser development: parse_desktop_file reads a file's text, the     *)
(* entry is mutated as toggle_selected or edit_user_entry mutate it, or   *)
(* left as it is, and write_desktop_entry renders it.                     *)

lExecD == kExec \o <<"=", "d">>
lHiddenFalse == kHidden \o <<"=">> \o kFalse
lAutostartFalse == kAutostartEnabled \o <<"=">> \o kFalse

\* the lines that follow a first [Desktop Entry] header, in two families:
\* assignments of name and command, and assignments of enabled
SectionPools ==
    { { kHeaderLine, lOther, lName, lNameSpaced, lExec, lExecD },
      { kHeaderLine, lOther, lHiddenTrue, lHiddenFalse, lAutostartTrue, lAutostartFalse } }

ParseInputs ==
    TextInputs
    \cup UNION { { Unlines(<< kHeaderLine >> \o ls) : ls \in SeqsUpTo(pool, MaxLines) } :
                 pool \in SectionPools }

ParseFileInit ==
    /\ txtIn \in { << t >> : t \in ParseInputs }
    /\ txtRec = <<>>
    /\ txtPrev = <<>>
    /\ txtOut = <<>>
    /\ txtCycles = 0
    /\ txtMutated = FALSE
    /\ AppAtRest
    /\ GuardAtRest
    /\ ViewAtRest

\* parse_desktop_file on the text read from the file
ParseFile ==
    /\ txtCycles = 0
    /\ txtRec' = ParseContent(txtIn[1])
    /\ txtCycles' = 1
    /\ UNCHANGED << txtPrev, txtOut, txtMutated, txtIn, appVars, guardVars, fnVars >>

\* write_desktop_entry of the entry, which is kept in txtPrev
Render(entry, mutated) ==
    /\ txtCycles = 1
    /\ txtPrev' = entry
    /\ txtOut' = RenderContent(entry)
    /\ txtMutated' = mutated
    /\ txtCycles' = 2
    /\ UNCHANGED << txtRec, txtIn, appVars, guardVars, fnVars >>

RenderParsed == Render(txtRec, FALSE)

\* toggle_selected: entry.enabled = !entry.enabled
RenderToggled == Render([txtRec EXCEPT !.enabled = ~@], TRUE)

\* edit_user_entry: updated.name, updated.command
RenderEdited ==
    \E n \in NamePool, c \in CommandPool :
        Render([txtRec EXCEPT !.name = n, !.command = c], TRUE)

ParseNext == ParseFile \/ RenderParsed \/ RenderToggled \/ RenderEdited

SpecParse == ParseFileInit /\ [][ParseNext]_vars

----------------------------------------------------------------------------

(* The guard development: validate_user_entry_path applied to a path, for  *)
(* every way the directories may resolve and every node the path may name. *)

\* the directory a path may lie in: the user autostart directory, the system
\* one, a symbolic link to the user one, the directory the user one is a
\* symbolic link to (when it is one), and a directory that does not exist
GuardDirs == { UserDirName, SystemDirName, "alias", "real", "gone" }

\* what canonicalize returns: the user directory exists, does not exist, or
\* is a symbolic link to the directory "real"
CanonPool ==
    { [ d \in GuardDirs |->
          CASE d = UserDirName -> << UserDirName >>
            [] d = "alias" -> << UserDirName >>
            [] d = "gone" -> <<>>
            [] OTHER -> << d >> ],
      [ d \in GuardDirs |->
          CASE d \in { UserDirName, "alias", "gone" } -> <<>>
            [] OTHER -> << d >> ],
      [ d \in GuardDirs |->
          CASE d \in { UserDirName, "alias" } -> << "real" >>
            [] d = "gone" -> <<>>
            [] OTHER -> << d >> ] }

GuardNodes == { Absent, File(<<>>), Symlink(<<>>), Unreadable, Directory }

\* nothing can be found in a directory that does not resolve
GuardInputs ==
    { in \in [ path : { PathOf(d, f) : d \in GuardDirs, f \in UserFiles },
               canon : CanonPool, node : GuardNodes, searchable : BOOLEAN ] :
        in.canon[in.path.dir] = <<>> => (in.node = Absent /\ in.searchable) }

GuardInit ==
    /\ guardIn \in GuardInputs
    /\ guardOut = <<>>
    /\ TxtAtRest
    /\ AppAtRest
    /\ ViewAtRest

GuardCall ==
    /\ guardOut = <<>>
    /\ guardOut' = << validate_user_entry_path(guardIn.path, guardIn.canon,
                         symlink_metadata(guardIn.node, guardIn.searchable)) >>
    /\ UNCHANGED << guardIn, txtVars, appVars, fnVars >>

GuardNext == GuardCall

SpecGuard == GuardInit /\ [][GuardNext]_vars

----------------------------------------------------------------------------
(* The view development: apply_filter as a function of an entry list and a *)
(* FilterState, for every list up to MaxEntries and every FilterState.     *)

MaxEntries == 3

ShellProfile == "ShellProfile"
Unknown == "Unknown"
StartupSources == { UserAutostart, SystemAutostart, ShellProfile, Unknown }

\* the fields of a StartupEntry the view reads
ViewEntries ==
    [ name : NamePool, enabled : BOOLEAN, source : StartupSources ]

FilterStates ==
    [ show_enabled : BOOLEAN, show_disabled : BOOLEAN,
      show_user : BOOLEAN, show_system : BOOLEAN ]

ViewInputs == [ entries : SeqsUpTo(ViewEntries, MaxEntries), filter : FilterStates ]

ViewInit ==
    /\ viewIn \in { << x >> : x \in ViewInputs }
    /\ viewOut = <<>>
    /\ TxtAtRest
    /\ AppAtRest
    /\ GuardAtRest

\* apply_filter(&entries, &filter)
FilterCall ==
    /\ viewOut = <<>>
    /\ viewOut' = << apply_filter(viewIn[1].entries, viewIn[1].filter) >>
    /\ UNCHANGED << viewIn, txtVars, appVars, guardVars >>

ViewNext == FilterCall

SpecView == ViewInit /\ [][ViewNext]_vars

----------------------------------------------------------------------------

(* The sort development: sort_indices as a function of an entry list, an   *)
(* index vector and a SortKey.                                             *)

MaxSorted == 3

\* entries whose names differ in case only, differ in the first letter, or
\* start with a letter outside ASCII, over both states and both sources
SortEntries ==
    { [ name |-> <<"a">>, enabled |-> TRUE, source |-> UserAutostart, localized_names |-> <<>> ],
      [ name |-> <<"A">>, enabled |-> TRUE, source |-> UserAutostart, localized_names |-> <<>> ],
      [ name |-> <<"B">>, enabled |-> FALSE, source |-> UserAutostart, localized_names |-> <<>> ],
      [ name |-> <<"Ä">>, enabled |-> TRUE, source |-> SystemAutostart,
        localized_names |-> << << <<"d", "e">>, <<"a">> >> >> ],
      [ name |-> <<"b">>, enabled |-> FALSE, source |-> SystemAutostart, localized_names |-> <<>> ],
      [ name |-> <<"C">>, enabled |-> TRUE, source |-> SystemAutostart, localized_names |-> <<>> ] }

\* the orders the vector of the indices 1..n is given in: ascending, as
\* apply_filter returns it, descending, and with the first index moved last
Orders(n) ==
    { [i \in 1..n |-> i],
      [i \in 1..n |-> n + 1 - i],
      [i \in 1..n |-> IF i = n THEN 1 ELSE i + 1] }

SortInputs ==
    UNION { { [ entries |-> es, indices |-> p, sort |-> key ] :
                p \in Orders(Len(es)), key \in SortKeys } :
            es \in SeqsUpTo(SortEntries, MaxSorted) }

SortInit ==
    /\ viewIn \in { << x >> : x \in SortInputs }
    /\ viewOut = <<>>
    /\ TxtAtRest
    /\ AppAtRest
    /\ GuardAtRest

\* sort_indices(&entries, indices, sort)
SortCall ==
    /\ viewOut = <<>>
    /\ viewOut' = << sort_indices(viewIn[1].entries, viewIn[1].indices, viewIn[1].sort) >>
    /\ UNCHANGED << viewIn, txtVars, appVars, guardVars >>

SortNext == SortCall

SpecSort == SortInit /\ [][SortNext]_vars

----------------------------------------------------------------------------

(* The slug development: slugify as a function of the name typed into the  *)
(* add dialog.                                                             *)

MaxNameLen == 3

\* an upper-case and a lower-case letter, a digit, the three kinds of
\* separator, a punctuation character and a letter outside ASCII
SlugChars == { "A", "b", "1", " ", "-", "_", "$", "Ä" }

SlugInputs == SeqsUpTo(SlugChars, MaxNameLen)

SlugInit ==
    /\ viewIn \in { << x >> : x \in SlugInputs }
    /\ viewOut = <<>>
    /\ TxtAtRest
    /\ AppAtRest
    /\ GuardAtRest

\* slugify(name)
SlugCall ==
    /\ viewOut = <<>>
    /\ viewOut' = << slugify(viewIn[1]) >>
    /\ UNCHANGED << viewIn, txtVars, appVars, guardVars >>

SlugNext == SlugCall

SpecSlug == SlugInit /\ [][SlugNext]_vars

----------------------------------------------------------------------------

(* The application: AppState as build_ui leaves it, the handlers of the    *)
(* buttons and dialogs, and the changes other programs make to the user    *)
(* autostart directory while the application is idle.  A handler is        *)
(* modelled as the function it calls, callable whenever the application is *)
(* idle; the sensitivity update_detail gives the buttons is not modelled.  *)

MaxMutations == 1

lNameB == kName \o <<"=", "B">>
lNameS == kName \o <<"=", "s">>

tA == Unlines(<< kHeaderLine, lName, lExec >>)
tB == Unlines(<< lComment, kHeaderLine, lNameB, lExec, lHiddenTrue >>)
tS == Unlines(<< kHeaderLine, lNameS, lExec >>)
tExt == Unlines(<< kHeaderLine, lExec, lX1 >>)

\* /etc/xdg/autostart, which nothing in the model changes
fS == <<"s">> \o kDotDesktop
SystemNodes == [ f \in { fS } |-> File(tS) ]

InitialDisks ==
    { [ dir |-> FALSE, nodes |-> EmptyDisk ],
      [ dir |-> TRUE, nodes |-> [ f \in UserFiles |-> IF f = fA THEN File(tA) ELSE File(tB) ] ],
      [ dir |-> TRUE, nodes |-> [ f \in UserFiles |-> IF f = fA THEN File(tA) ELSE Absent ] ],
      [ dir |-> TRUE, nodes |-> [ f \in UserFiles |-> IF f = fA THEN Symlink(tA) ELSE Directory ] ] }

\* what another program may leave at a name of the user autostart directory
ExternalNodes == { Absent, File(tExt), Symlink(tExt), Unreadable }

InputNames == NamePool \cup { <<" ">> }
InputCommands == CommandPool \cup { <<>> }

NodeAt(path, nodes) ==
    IF path.dir = UserDirName /\ path.file \in DOMAIN nodes THEN nodes[path.file]
    ELSE IF path.dir = SystemDirName /\ path.file \in DOMAIN SystemNodes THEN SystemNodes[path.file]
    ELSE Absent

\* canonicalize, for the two directories the application knows
CanonNow(dirExists) ==
    [ d \in { UserDirName, SystemDirName } |->
        IF d = UserDirName /\ ~dirExists THEN <<>> ELSE << d >> ]

\* validate_user_entry_path on the file system as it is
Guard(path, dirExists, nodes) ==
    validate_user_entry_path(path, CanonNow(dirExists),
                             symlink_metadata(NodeAt(path, nodes), TRUE))

\* load_entries when no read_dir fails, the user directory listed in that
\* order and the system directory holding sysNodes
load_entries_on(dirExists, nodes, listing, sysNodes) ==
    load_autostart_dir(UserDirName, dirExists, nodes, listing, UserAutostart)
    \o load_autostart_dir(SystemDirName, TRUE, sysNodes, << fS >>, SystemAutostart)

\* load_entries of the application, whose system directory never changes
load_entries(dirExists, nodes, listing) ==
    load_entries_on(dirExists, nodes, listing, SystemNodes)

\* the results load_entries may give: << entries >>, or <<>> when read_dir fails
LoadResults(dirExists, nodes) ==
    { << load_entries(dirExists, nodes, l) >> : l \in Listings(nodes) }
    \cup (IF dirExists THEN { <<>> } ELSE {})

\* what a handler finds when it starts
Snapshot == [ entries |-> entries, selected |-> selected, disk |-> disk, userDir |-> userDir ]

\* how the handler that ran last ended (op "none" once anything else has
\* happened): Ok, Err with the step that failed, or still running
Ok(kind) == [ ok |-> TRUE, op |-> kind, step |-> "none" ]
Err(kind, step) == [ ok |-> FALSE, op |-> kind, step |-> step ]
Running(kind) == [ ok |-> TRUE, op |-> kind, step |-> "running" ]

\* build_ui: load_entries().unwrap_or_else(Vec::new), the default filter and
\* sort, rebuild_list
AppInit ==
    /\ \E d \in InitialDisks :
          /\ userDir = d.dir
          /\ disk = d.nodes
          /\ \E r \in LoadResults(d.dir, d.nodes) :
                entries = IF r = <<>> THEN <<>> ELSE r[1]
    /\ filter = FilterDefault
    /\ sort = "NameAsc"
    /\ visible_indices = VisibleOf(entries, filter, sort)
    /\ selected = <<>>
    /\ tmp = <<>>
    /\ pc = "idle"
    /\ op = NoOp
    /\ borrowed = FALSE
    /\ result = Ok("none")
    /\ trace = <<>>
    /\ snap = Snapshot
    /\ typed = <<>>
    /\ nMut = 0
    /\ TxtAtRest
    /\ GuardAtRest
    /\ ViewAtRest

fsVars == << userDir, disk, tmp >>
viewVars == << visible_indices, filter, sort, selected >>

\* a step that is no part of toggle, delete, edit or create: the record of
\* the last such handler is dropped
Settled ==
    /\ result' = Ok("none")
    /\ trace' = <<>>
    /\ typed' = <<>>
    /\ snap' = [ entries |-> entries', selected |-> selected', disk |-> disk',
                 userDir |-> userDir' ]

\* the row_selected handler: no row, or a row of the list (the placeholder
\* row of an empty list is row 1 and maps to no index)
RowSelected ==
    /\ pc = "idle"
    /\ \E r \in 0..(IF visible_indices = <<>> THEN 1 ELSE Len(visible_indices)) :
          selected' = IF r \in DOMAIN visible_indices THEN << visible_indices[r] >> ELSE <<>>
    /\ UNCHANGED << entries, visible_indices, filter, sort, fsVars, pc, op, borrowed,
                    nMut, txtVars, guardVars, fnVars >>
    /\ Settled

\* what refresh_entries does once load_entries has returned new_entries
Refreshed(new_entries) ==
    /\ entries' = new_entries
    /\ selected' = <<>>
    /\ visible_indices' = VisibleOf(new_entries, filter, sort)
    /\ UNCHANGED << filter, sort >>

\* the Refresh button
RefreshClicked ==
    /\ pc = "idle"
    /\ \E r \in LoadResults(userDir, disk) :
          IF r = <<>>
          THEN UNCHANGED << entries, viewVars >>
          ELSE Refreshed(r[1])
    /\ UNCHANGED << fsVars, pc, op, borrowed, nMut, txtVars, guardVars, fnVars >>
    /\ Settled

\* another program changes the user autostart directory
ExternalChange ==
    /\ pc = "idle"
    /\ nMut < MaxMutations
    /\ nMut' = nMut + 1
    /\ \/ /\ userDir
          /\ \E f \in UserFiles, n \in ExternalNodes :
                /\ disk[f] # n
                /\ disk' = [disk EXCEPT ![f] = n]
          /\ UNCHANGED userDir
       \/ /\ userDir' = ~userDir
          /\ disk' = EmptyDisk
    /\ UNCHANGED << entries, viewVars, tmp, pc, op, borrowed, txtVars, guardVars, fnVars >>
    /\ Settled

\* a handler returns Err from the given step, having done what tr lists
Fail(kind, step, tr) ==
    /\ pc' = "idle"
    /\ op' = NoOp
    /\ borrowed' = FALSE
    /\ result' = Err(kind, step)
    /\ trace' = tr

\* a handler has passed the guard and enters write_desktop_entry(entry, path)
StartWrite(kind, entry, path, tr) ==
    /\ nMut < MaxMutations
    /\ nMut' = nMut + 1
    /\ pc' = "w_tmp"
    /\ op' = [ kind |-> kind, entry |-> entry, path |-> path ]
    /\ result' = Running(kind)
    /\ trace' = tr

\* mutant: the source check is forgotten
IsUserEntryAlways(entry) == TRUE

\* entry.source == StartupSource::UserAutostart
IsUserEntry(entry) == entry.source = UserAutostart

\* toggle_selected up to its call of write_desktop_entry
toggle_selected ==
    /\ pc = "idle"
    /\ snap' = Snapshot
    /\ typed' = <<>>
    /\ IF selected = <<>> \/ (selected # <<>> /\ selected[1] \notin DOMAIN entries)
       THEN Fail("toggle", "selection", <<>>) /\ UNCHANGED << entries, nMut >>
       ELSE LET idx == selected[1]
                entry == entries[idx]
                path == IF entry.path # <<>> THEN entry.path[1] ELSE SlugPath(entry.name)
                g == Guard(path, userDir, disk)
            IN IF ~IsUserEntry(entry)
               THEN Fail("toggle", "provenance", <<>>) /\ UNCHANGED << entries, nMut >>
               ELSE IF ~g.ok
               THEN Fail("toggle", "guard", << "guard_err" >>) /\ UNCHANGED << entries, nMut >>
               ELSE /\ entries' = [entries EXCEPT ![idx].enabled = ~@]
                    /\ borrowed' = TRUE
                    /\ StartWrite("toggle", entries'[idx], g.path, << "guard_ok" >>)
    /\ UNCHANGED << viewVars, fsVars, txtVars, guardVars, fnVars >>

\* mutant: delete_selected without its call of validate_user_entry_path
delete_selected_unguarded ==
    /\ pc = "idle"
    /\ snap' = Snapshot
    /\ typed' = <<>>
    /\ IF selected = <<>> \/ (selected # <<>> /\ selected[1] \notin DOMAIN entries)
       THEN Fail("delete", "selection", <<>>) /\ UNCHANGED nMut
       ELSE LET entry == entries[selected[1]]
            IN IF ~IsUserEntry(entry)
               THEN Fail("delete", "provenance", <<>>) /\ UNCHANGED nMut
               ELSE IF entry.path = <<>>
               THEN Fail("delete", "no path", <<>>) /\ UNCHANGED nMut
               ELSE /\ nMut < MaxMutations
                    /\ nMut' = nMut + 1
                    /\ pc' = "remove"
                    /\ op' = [ kind |-> "delete", entry |-> entry, path |-> entry.path[1] ]
                    /\ result' = Running("delete")
                    /\ trace' = <<>>
                    /\ UNCHANGED borrowed
    /\ UNCHANGED << entries, viewVars, fsVars, txtVars, guardVars, fnVars >>

\* delete_selected up to its call of fs::remove_file
delete_selected ==
    /\ pc = "idle"
    /\ snap' = Snapshot
    /\ typed' = <<>>
    /\ IF selected = <<>> \/ (selected # <<>> /\ selected[1] \notin DOMAIN entries)
       THEN Fail("delete", "selection", <<>>) /\ UNCHANGED nMut
       ELSE LET entry == entries[selected[1]]
                g == Guard(entry.path[1], userDir, disk)
            IN IF ~IsUserEntry(entry)
               THEN Fail("delete", "provenance", <<>>) /\ UNCHANGED nMut
               ELSE IF entry.path = <<>>
               THEN Fail("delete", "no path", <<>>) /\ UNCHANGED nMut
               ELSE IF ~g.ok
               THEN Fail("delete", "guard", << "guard_err" >>) /\ UNCHANGED nMut
               ELSE /\ nMut < MaxMutations
                    /\ nMut' = nMut + 1
                    /\ pc' = "remove"
                    /\ op' = [ kind |-> "delete", entry |-> entry, path |-> g.path ]
                    /\ result' = Running("delete")
                    /\ trace' = << "guard_ok" >>
                    /\ UNCHANGED borrowed
    /\ UNCHANGED << entries, viewVars, fsVars, txtVars, guardVars, fnVars >>

\* show_edit_dialog: the dialog opens on a clone of the selected entry
show_edit_dialog ==
    /\ pc = "idle"
    /\ snap' = Snapshot
    /\ typed' = <<>>
    /\ IF selected = <<>> \/ (selected # <<>> /\ selected[1] \notin DOMAIN entries)
       THEN Fail("edit", "selection", <<>>)
       ELSE LET entry == entries[selected[1]]
            IN IF ~IsUserEntry(entry)
               THEN Fail("edit", "provenance", <<>>)
               ELSE /\ pc' = "edit_dialog"
                    /\ op' = [ kind |-> "edit", entry |-> entry, path |-> entry.path ]
                    /\ result' = Running("edit")
                    /\ trace' = <<>>
                    /\ UNCHANGED borrowed
    /\ UNCHANGED << entries, viewVars, fsVars, nMut, txtVars, guardVars, fnVars >>

\* mutant: the edit writes to the path made from the new name's slug
edit_response_renames ==
    /\ pc = "edit_dialog"
    /\ \/ /\ pc' = "idle"
          /\ op' = NoOp
          /\ result' = Ok("none")
          /\ UNCHANGED << trace, typed, nMut >>
       \/ \E new_name \in InputNames, new_cmd \in InputCommands :
             /\ typed' = << new_name, new_cmd >>
             /\ LET updated == [op.entry EXCEPT !.name = new_name, !.command = new_cmd]
                    target_path == SlugPath(new_name)
                    g == Guard(target_path, userDir, disk)
                IN IF Trim(new_name) = <<>> \/ Trim(new_cmd) = <<>>
                   THEN Fail("edit", "input", <<>>) /\ UNCHANGED nMut
                   ELSE IF ~g.ok
                   THEN Fail("edit", "guard", << "guard_err" >>) /\ UNCHANGED nMut
                   ELSE StartWrite("edit", updated, g.path, << "guard_ok" >>)
    /\ UNCHANGED << entries, viewVars, fsVars, borrowed, snap, txtVars, guardVars, fnVars >>

\* the response handler of the edit dialog, with edit_user_entry up to its
\* call of write_desktop_entry
edit_response ==
    /\ pc = "edit_dialog"
    /\ \/ /\ pc' = "idle"           \* Cancel
          /\ op' = NoOp
          /\ result' = Ok("none")
          /\ UNCHANGED << trace, typed, nMut >>
       \/ \E new_name \in InputNames, new_cmd \in InputCommands :
             /\ typed' = << new_name, new_cmd >>
             /\ LET updated == [op.entry EXCEPT !.name = new_name, !.command = new_cmd]
                    target_path == IF op.path # <<>> THEN op.path[1] ELSE SlugPath(new_name)
                    g == Guard(target_path, userDir, disk)
                IN IF Trim(new_name) = <<>> \/ Trim(new_cmd) = <<>>
                   THEN Fail("edit", "input", <<>>) /\ UNCHANGED nMut
                   ELSE IF ~g.ok
                   THEN Fail("edit", "guard", << "guard_err" >>) /\ UNCHANGED nMut
                   ELSE StartWrite("edit", updated, g.path, << "guard_ok" >>)
    /\ UNCHANGED << entries, viewVars, fsVars, borrowed, snap, txtVars, guardVars, fnVars >>

\* the StartupEntry create_user_entry builds
CreatedEntry(name, command, path) ==
    [ name |-> name, command |-> command, enabled |-> TRUE,
      source |-> UserAutostart, path |-> << path >>,
      extra |-> <<>>, localized_names |-> <<>>, entry_comments |-> <<>>,
      preamble |-> <<>>, other_groups |-> <<>> ]

\* mutant: create_user_entry without its test of name and command
create_user_entry_unchecked ==
    /\ pc = "idle"
    /\ snap' = Snapshot
    /\ \E name \in InputNames, command \in InputCommands, mkdirOk \in BOOLEAN :
          /\ typed' = << name, command >>
          /\ LET path == SlugPath(name)
                 made == IF userDir THEN <<>> ELSE << "mkdir" >>
                 g == Guard(path, TRUE, disk)
             IN IF ~userDir /\ ~mkdirOk
                THEN Fail("create", "mkdir", <<>>) /\ UNCHANGED << userDir, nMut >>
                ELSE /\ userDir' = TRUE
                     /\ IF ~g.ok
                        THEN Fail("create", "guard", made \o << "guard_err" >>) /\ UNCHANGED nMut
                        ELSE StartWrite("create", CreatedEntry(name, command, g.path), g.path,
                                        made \o << "guard_ok" >>)
    /\ UNCHANGED << entries, viewVars, disk, tmp, borrowed, txtVars, guardVars, fnVars >>

\* mutant: create_user_entry refuses a name whose file already exists
create_user_entry_unique ==
    /\ pc = "idle"
    /\ snap' = Snapshot
    /\ \E name \in InputNames, command \in InputCommands, mkdirOk \in BOOLEAN :
          /\ typed' = << name, command >>
          /\ LET path == SlugPath(name)
                 made == IF userDir THEN <<>> ELSE << "mkdir" >>
                 g == Guard(path, TRUE, disk)
             IN IF Trim(name) = <<>> \/ Trim(command) = <<>>
                THEN Fail("create", "input", <<>>) /\ UNCHANGED << userDir, nMut >>
                ELSE IF ~userDir /\ ~mkdirOk
                THEN Fail("create", "mkdir", <<>>) /\ UNCHANGED << userDir, nMut >>
                ELSE /\ userDir' = TRUE
                     /\ IF ~g.ok \/ NodeAt(path, disk) # Absent
                        THEN Fail("create", "guard", made \o << "guard_err" >>) /\ UNCHANGED nMut
                        ELSE StartWrite("create", CreatedEntry(name, command, g.path), g.path,
                                        made \o << "guard_ok" >>)
    /\ UNCHANGED << entries, viewVars, disk, tmp, borrowed, txtVars, guardVars, fnVars >>

\* the response handler of the add dialog, with create_user_entry up to its
\* call of write_desktop_entry; fs::create_dir_all comes before the guard
create_user_entry ==
    /\ pc = "idle"
    /\ snap' = Snapshot
    /\ \E name \in InputNames, command \in InputCommands, mkdirOk \in BOOLEAN :
          /\ typed' = << name, command >>
          /\ LET path == SlugPath(name)
                 made == IF userDir THEN <<>> ELSE << "mkdir" >>
                 g == Guard(path, TRUE, disk)
             IN IF Trim(name) = <<>> \/ Trim(command) = <<>>
                THEN Fail("create", "input", <<>>) /\ UNCHANGED << userDir, nMut >>
                ELSE IF ~userDir /\ ~mkdirOk
                THEN Fail("create", "mkdir", <<>>) /\ UNCHANGED << userDir, nMut >>
                ELSE /\ userDir' = TRUE
                     /\ IF ~g.ok
                        THEN Fail("create", "guard", made \o << "guard_err" >>) /\ UNCHANGED nMut
                        ELSE StartWrite("create", CreatedEntry(name, command, g.path), g.path,
                                        made \o << "guard_ok" >>)
    /\ UNCHANGED << entries, viewVars, disk, tmp, borrowed, txtVars, guardVars, fnVars >>

\* write_desktop_entry returns Err: the NamedTempFile is dropped, which
\* removes the temporary file, and the handler returns the error
WriteFails(step) ==
    /\ tmp' = <<>>
    /\ Fail(op.kind, step, trace)
    /\ UNCHANGED << entries, viewVars, userDir, disk, snap, nMut, typed, txtVars, guardVars, fnVars >>

WriteStep(next) ==
    /\ pc' = next
    /\ UNCHANGED << entries, viewVars, userDir, op, borrowed, result, snap, nMut,
                    typed, txtVars, guardVars, fnVars >>

\* NamedTempFile::new_in(&dir); create_dir_all(&dir) before it finds the
\* directory the guard has just resolved
tempfile_new_in ==
    /\ pc = "w_tmp"
    /\ \/ /\ tmp' = << <<>> >>
          /\ trace' = Append(trace, "tmp_create")
          /\ WriteStep("w_write")
          /\ UNCHANGED disk
       \/ WriteFails("tmp")

\* mutant: the bytes are written into the target itself
write_all_begin_in_place ==
    /\ pc = "w_write"
    /\ \/ /\ disk' = [disk EXCEPT ![op.path.file] =
                        File(SubSeq(RenderContent(op.entry), 1, Len(RenderContent(op.entry)) \div 2))]
          /\ WriteStep("w_write_rest")
          /\ UNCHANGED << tmp, trace >>
       \/ WriteFails("write")

\* file.write_all(content): some of the bytes reach the temporary file
write_all_begin ==
    /\ pc = "w_write"
    /\ \/ /\ tmp' = << SubSeq(RenderContent(op.entry), 1, Len(RenderContent(op.entry)) \div 2) >>
          /\ WriteStep("w_write_rest")
          /\ UNCHANGED << disk, trace >>
       \/ WriteFails("write")

\* file.write_all(content): the rest of the bytes
write_all_end ==
    /\ pc = "w_write_rest"
    /\ \/ /\ tmp' = << RenderContent(op.entry) >>
          /\ trace' = Append(trace, "write")
          /\ WriteStep("w_sync")
          /\ UNCHANGED disk
       \/ WriteFails("write")

\* let _ = file.sync_all(): whatever it returns is dropped
sync_all ==
    /\ pc = "w_sync"
    /\ WriteStep("w_persist")
    /\ UNCHANGED << disk, tmp, trace >>

\* tmp.persist(path): the rename of the temporary file onto the target
persist ==
    /\ pc = "w_persist"
    /\ \/ /\ disk' = [disk EXCEPT ![op.path.file] = File(tmp[1])]
          /\ tmp' = <<>>
          /\ trace' = Append(trace, "persist")
          /\ WriteStep("w_done")
       \/ WriteFails("persist")

\* the end of edit_user_entry: when the file was written to another path
\* than the entry's own, the old file is removed if the guard accepts it,
\* and the error of fs::remove_file is dropped
OldFileLeft(nodes) ==
    LET differs == op.kind = "edit" /\ op.entry.path # <<>> /\ op.entry.path[1] # op.path
    IN IF differs /\ Guard(op.entry.path[1], userDir, nodes).ok
       THEN { nodes, [nodes EXCEPT ![op.entry.path[1].file] = Absent] }
       ELSE { nodes }

\* what follows write_desktop_entry in the handler: toggle_selected calls
\* refresh_entries while its RefMut of entries is alive, so that
\* entries.replace panics once load_entries has succeeded; the dialogs call
\* refresh_entries with nothing borrowed
after_write ==
    /\ pc = "w_done"
    /\ \E left \in OldFileLeft(disk) :
          /\ disk' = left
          /\ LET tr == IF left = disk THEN trace ELSE Append(trace, "remove_file")
             IN \E r \in LoadResults(userDir, left) :
                   IF r = <<>>
                   THEN /\ Fail(op.kind, "refresh", tr)
                        /\ UNCHANGED << entries, viewVars >>
                   ELSE IF borrowed
                   THEN /\ pc' = "panicked"
                        /\ trace' = tr
                        /\ UNCHANGED << entries, viewVars, op, borrowed, result >>
                   ELSE /\ Refreshed(r[1])
                        /\ pc' = "idle"
                        /\ op' = NoOp
                        /\ result' = Ok(op.kind)
                        /\ trace' = tr
                        /\ UNCHANGED borrowed
    /\ UNCHANGED << userDir, tmp, snap, typed, nMut, txtVars, guardVars, fnVars >>

\* fs::remove_file(&path), then drop(entries) and refresh_entries
remove_file ==
    /\ pc = "remove"
    /\ \/ /\ Fail("delete", "remove", trace)
          /\ UNCHANGED << entries, viewVars, disk >>
       \/ /\ disk' = [disk EXCEPT ![op.path.file] = Absent]
          /\ \E r \in LoadResults(userDir, disk') :
                IF r = <<>>
                THEN /\ Fail("delete", "refresh", Append(trace, "remove_file"))
                     /\ UNCHANGED << entries, viewVars >>
                ELSE /\ Refreshed(r[1])
                     /\ pc' = "idle"
                     /\ op' = NoOp
                     /\ result' = Ok("delete")
                     /\ trace' = Append(trace, "remove_file")
                     /\ UNCHANGED borrowed
    /\ UNCHANGED << userDir, tmp, snap, nMut, typed, txtVars, guardVars, fnVars >>

\* the process dies in the middle of a handler; a temporary file stays
Crash ==
    /\ pc \in { "w_tmp", "w_write", "w_write_rest", "w_sync", "w_persist", "w_done", "remove" }
    /\ pc' = "crashed"
    /\ UNCHANGED << entries, viewVars, fsVars, op, borrowed, result, trace, snap, nMut,
                    typed, txtVars, guardVars, fnVars >>

Init == AppInit

Next ==
    \/ RowSelected
    \/ RefreshClicked
    \/ ExternalChange
    \/ toggle_selected
    \/ delete_selected
    \/ show_edit_dialog
    \/ edit_response
    \/ create_user_entry
    \/ tempfile_new_in
    \/ write_all_begin
    \/ write_all_end
    \/ sync_all
    \/ persist
    \/ after_write
    \/ remove_file
    \/ Crash

Spec == Init /\ [][Next]_vars

----------------------------------------------------------------------------
(* The stale-entry development: the application with another process that  *)
(* rewrites the file of a loaded user entry before toggle or edit runs.    *)

\* another process writes new content into a user entry's regular file
StaleChange ==
    /\ pc = "idle"
    /\ nMut = 0
    /\ \E f \in UserFiles :
          /\ disk[f].kind = "file"
          /\ disk[f] # File(tExt)
          /\ disk' = [disk EXCEPT ![f] = File(tExt)]
    /\ UNCHANGED << entries, viewVars, userDir, tmp, pc, op, borrowed, nMut,
                    txtVars, guardVars, fnVars >>
    /\ Settled

StaleNext ==
    \/ RowSelected
    \/ StaleChange
    \/ toggle_selected
    \/ show_edit_dialog
    \/ edit_response
    \/ tempfile_new_in
    \/ write_all_begin
    \/ write_all_end
    \/ sync_all
    \/ persist
    \/ after_write

SpecStale == AppInit /\ [][StaleNext]_vars

----------------------------------------------------------------------------
(* The selection development: the application with the filter and the sort *)
(* dialogs, which rebuild the list.                                        *)

\* mutant: rebuild_list without its state.selected.replace(None)
RebuiltKeepingSelection(f, key) ==
    /\ visible_indices' = VisibleOf(entries, f, key)
    /\ UNCHANGED selected

\* what rebuild_list does with the entries, filter f and sort key
Rebuilt(f, key) ==
    /\ visible_indices' = VisibleOf(entries, f, key)
    /\ selected' = <<>>

\* the check boxes tried in the filter dialog: everything, user entries
\* only, nothing
FilterChoices ==
    { FilterDefault,
      [FilterDefault EXCEPT !.show_system = FALSE],
      [ show_enabled |-> FALSE, show_disabled |-> FALSE,
        show_user |-> FALSE, show_system |-> FALSE ] }

\* the radio buttons tried in the sort dialog
SortChoices == { "NameAsc", "NameDesc" }

\* the response handler of the filter dialog on Apply
filter_response ==
    /\ pc = "idle"
    /\ \E f \in FilterChoices :
          /\ filter' = f
          /\ Rebuilt(f, sort)
    /\ UNCHANGED << entries, sort, fsVars, pc, op, borrowed, nMut, txtVars, guardVars, fnVars >>
    /\ Settled

\* the response handler of the sort dialog on Apply
sort_response ==
    /\ pc = "idle"
    /\ \E new_sort \in SortChoices :
          /\ sort' = new_sort
          /\ Rebuilt(filter, new_sort)
    /\ UNCHANGED << entries, filter, fsVars, pc, op, borrowed, nMut, txtVars, guardVars, fnVars >>
    /\ Settled

SelectNext ==
    \/ RowSelected
    \/ RefreshClicked
    \/ filter_response
    \/ sort_response
    \/ toggle_selected
    \/ delete_selected
    \/ show_edit_dialog
    \/ edit_response
    \/ create_user_entry
    \/ tempfile_new_in
    \/ write_all_begin
    \/ write_all_end
    \/ sync_all
    \/ persist
    \/ after_write
    \/ remove_file

SpecSelect == AppInit /\ [][SelectNext]_vars

----------------------------------------------------------------------------
(* The load development: load_entries as a function of what the two        *)
(* directories hold and of the order read_dir lists the user directory in. *)

\* what a name of a directory may hold when it is loaded
LoadNodes == { Absent, File(tA), File(tB), Symlink(tExt), Unreadable, Directory }

LoadInputs ==
    UNION { { [ dir |-> d, nodes |-> n, listing |-> l, sys |-> y, readDirOk |-> r ] :
                d \in BOOLEAN, l \in Listings(n), r \in BOOLEAN,
                y \in [ { fS } -> { File(tS), Unreadable } ] } :
            n \in [ UserFiles -> LoadNodes ] }

LoadInit ==
    /\ viewIn \in { << x >> : x \in LoadInputs }
    /\ viewOut = <<>>
    /\ TxtAtRest
    /\ AppAtRest
    /\ GuardAtRest

\* load_entries(): << << entries >> >> for Ok, << <<>> >> for the Err of a
\* read_dir that fails, which only an existing directory can give
LoadCall ==
    /\ viewOut = <<>>
    /\ viewOut' = IF viewIn[1].dir /\ ~viewIn[1].readDirOk
                  THEN << <<>> >>
                  ELSE << << load_entries_on(viewIn[1].dir, viewIn[1].nodes,
                                             viewIn[1].listing, viewIn[1].sys) >> >>
    /\ UNCHANGED << viewIn, txtVars, appVars, guardVars >>

LoadNext == LoadCall

SpecLoad == LoadInit /\ [][LoadNext]_vars

----------------------------------------------------------------------------
(* Claims about the parser and the writer.                                 *)

\* txtPrev has been written (txtOut) and txtRec is the parse of what was written
Written == txtCycles > 0

SameStructured(a, b) ==
    /\ a.name = b.name
    /\ a.command = b.command
    /\ a.enabled = b.enabled
    /\ a.extra = b.extra
    /\ a.localized_names = b.localized_names
    /\ a.other_groups = b.other_groups

\* C1: for every Record R, parsing the rendering of R yields a Record whose
\* name, command, enabled flag, unrecognized_fields, localized_names and
\* other_sections equal those of R.
C1_RenderThenParseKeepsFields ==
    Written => SameStructured(txtRec, txtPrev)

\* C2: a Record obtained by parsing and not mutated is reproduced, in every
\* field including entry_comments and preamble, by a write -> parse cycle, so
\* no field grows or shrinks from cycle to cycle.  Stated for the files the
\* writer itself produced: from the second cycle on, txtPrev is the parse of
\* the file written by the cycle before.
C2_ParseWriteCycleIsStable ==
    (txtCycles >= 2 /\ ~txtMutated) => txtRec = txtPrev

IsDedicatedKey(k) ==
    \/ k \in {kName, kExec, kHidden, kAutostartEnabled, kType}
    \/ (StartsWith(k, kNameBracket) /\ EndsWith(k, <<"]">>))

\* C3: after parsing, unrecognized_fields holds no pair whose key is Name,
\* Name[<locale>], Exec, Hidden, X-GNOME-Autostart-enabled or Type.
C3_ExtraHasNoDedicatedKey ==
    \A i \in 1..Len(txtRec.extra) : ~IsDedicatedKey(txtRec.extra[i][1])

\* what a reader of the written file sees of its [Desktop Entry] section
OutLines == Lines(txtOut)

HeaderIndex(out) ==
    IF \E i \in 1..Len(out) : out[i] = kHeaderLine
    THEN CHOOSE i \in 1..Len(out) : out[i] = kHeaderLine /\ \A j \in 1..(i - 1) : out[j] # kHeaderLine
    ELSE 0

\* the indices of the lines between the first [Desktop Entry] header and the
\* next header line
PrimaryIndices(out) ==
    LET h == HeaderIndex(out)
        later == { i \in (h + 1)..Len(out) : IsHeader(Trim(out[i])) }
        e == IF later = {} THEN Len(out) + 1
             ELSE CHOOSE i \in later : \A j \in later : i <= j
    IN IF h = 0 THEN {} ELSE (h + 1)..(e - 1)

IsKeyLine(line, key) ==
    /\ ~StartsWith(Trim(line), <<"#">>)
    /\ SplitOnce(line, "=") # <<>>
    /\ Trim(SplitOnce(line, "=")[1]) = key

KeyIndices(out, key) == { i \in PrimaryIndices(out) : IsKeyLine(out[i], key) }

KeyValues(out, key) == { Trim(SplitOnce(out[i], "=")[2]) : i \in KeyIndices(out, key) }

\* C9: the rendered primary section always holds an X-GNOME-Autostart-enabled
\* line whose value is true exactly when enabled, and a Hidden line whose
\* value is true exactly when not enabled; parsing the output gives back the
\* Record's enabled value.
C9_BothControlKeysWritten ==
    Written =>
        /\ KeyValues(OutLines, kAutostartEnabled) = { IF txtPrev.enabled THEN kTrue ELSE kFalse }
        /\ KeyValues(OutLines, kHidden) = { IF txtPrev.enabled THEN kFalse ELSE kTrue }
        /\ txtRec.enabled = txtPrev.enabled

\* C9 witness: an entry that was toggled to disabled has been written and
\* parsed back.
C9_Witness ==
    /\ Written
    /\ txtMutated
    /\ ~txtPrev.enabled
    /\ ~txtRec.enabled
    /\ KeyIndices(OutLines, kHidden) # {}

NotDedicated(pair) == ~IsDedicatedKey(pair[1])

----------------------------------------------------------------------------
(* Claims about the path guard.                                            *)

\* the canonicalized parent of the path is the canonicalized trusted directory
ParentMatches(in) ==
    /\ in.canon[UserDirName] # <<>>
    /\ in.canon[in.path.dir] = in.canon[UserDirName]

\* something is at the path and it is a symbolic link or not a regular file
UnsafeTarget(in) == in.node.kind \in { "symlink", "dir" }

\* C7: the path guard fails for every path whose canonical parent differs
\* from the canonical trusted directory, fails for every path at which a
\* symbolic link or something that is not a regular file exists, and
\* otherwise succeeds and returns the path unchanged.
C7_GuardDecides ==
    guardOut # <<>> =>
        IF ~ParentMatches(guardIn) \/ UnsafeTarget(guardIn)
        THEN ~guardOut[1].ok
        ELSE guardOut[1].ok /\ guardOut[1].path = guardIn.path

\* what does hold of the guard: the same decision, for the calls in which
\* symlink_metadata could read the node
C7_GuardDecidesWhenReadable ==
    (guardOut # <<>> /\ guardIn.searchable) =>
        IF ~ParentMatches(guardIn) \/ UnsafeTarget(guardIn)
        THEN ~guardOut[1].ok
        ELSE guardOut[1].ok /\ guardOut[1].path = guardIn.path

----------------------------------------------------------------------------
(* Claims about the handlers.  result, trace and snap record the handler   *)
(* that ran last: how it ended, the file-system steps it took in order,    *)
(* and the state it found.                                                 *)

InTrace(x) == \E i \in DOMAIN trace : trace[i] = x

GuardAcceptedBefore(i) == \E j \in 1..(i - 1) : trace[j] = "guard_ok"

MutatingOps == { "toggle", "delete", "edit", "create" }

\* C4: when toggle, delete, edit or create returns an error from the
\* provenance check, the path guard, the creation of the temporary file,
\* the write, the rename or the removal, the records in memory and the
\* files on disk are as they were when the operation started.
C4_FailedOperationChangesNothing ==
    ( /\ pc = "idle"
      /\ ~result.ok
      /\ result.op \in MutatingOps
      /\ result.step \in { "provenance", "guard", "tmp", "write", "persist", "remove" } )
    => (entries = snap.entries /\ disk = snap.disk)

\* C5, as claimed: no directory creation, temporary file creation, rename
\* or removal happens before the path guard has accepted the target path.
C5_NoMutationBeforeGuard ==
    \A i \in DOMAIN trace :
        trace[i] \in { "mkdir", "tmp_create", "write", "persist", "remove_file" }
        => GuardAcceptedBefore(i)

\* C5, amended: no temporary file creation, write, rename or removal happens
\* before the path guard has accepted the target path; the one step that
\* may come before the guard is create's creation of the trusted directory.
C5_NoFileMutationBeforeGuard ==
    \A i \in DOMAIN trace :
        /\ trace[i] \in { "tmp_create", "write", "persist", "remove_file" }
              => GuardAcceptedBefore(i)
        /\ trace[i] = "mkdir" => (i = 1 /\ result.op = "create")

\* C5 witness: create has made the directory, passed the guard and renamed
\* the temporary file onto the target
C5_Witness ==
    /\ Len(trace) >= 2
    /\ trace[1] = "mkdir"
    /\ trace[2] = "guard_ok"
    /\ InTrace("persist")

\* the handler that ran last found a selected entry that is not a user entry
NonUserSelected ==
    /\ result.op \in { "toggle", "delete", "edit" }
    /\ snap.selected # <<>>
    /\ snap.selected[1] \in DOMAIN snap.entries
    /\ snap.entries[snap.selected[1]].source # UserAutostart

\* C6: toggle, delete and edit of a selected entry that is not a user entry
\* fail at the provenance check, before the path guard is called; no file
\* is created, rewritten or removed and no record in memory changes.
C6_NonUserEntryIsRefused ==
    NonUserSelected =>
        /\ pc = "idle"
        /\ ~result.ok
        /\ result.step = "provenance"
        /\ trace = <<>>
        /\ entries = snap.entries
        /\ disk = snap.disk
        /\ userDir = snap.userDir
        /\ tmp = <<>>

\* C6 witness: a handler was invoked on a system entry and refused it
C6_Witness == NonUserSelected /\ result.step = "provenance"

\* C8: while write_desktop_entry writes to a target, and after a crash or
\* an error at any of its steps, the target holds its previous content (or
\* is absent) or the complete new content, never a part of it; until the
\* rename nothing on disk has changed.
C8_TargetOldOrNew ==
    /\ op.kind \in { "toggle", "edit", "create" } /\ pc # "edit_dialog"
          => /\ disk[op.path.file] \in { snap.disk[op.path.file],
                                          File(RenderContent(op.entry)) }
             /\ ~InTrace("persist") => disk = snap.disk
    /\ (~result.ok /\ result.step \in { "tmp", "write", "persist" }) => disk = snap.disk

\* C8 witness: the process died with part of the new content in the
\* temporary file, the target being a file that was there before
C8_Witness ==
    /\ pc = "crashed"
    /\ op.kind \in { "toggle", "edit", "create" }
    /\ tmp # <<>>
    /\ tmp[1] # <<>>
    /\ tmp[1] # RenderContent(op.entry)
    /\ snap.disk[op.path.file].kind = "file"

----------------------------------------------------------------------------
(* Claims about the layout of the written text.                            *)

\* C11: for every entry the written text ends with exactly one newline
\* character.
C11_EndsWithOneNewline ==
    Written =>
        /\ Len(txtOut) >= 1
        /\ txtOut[Len(txtOut)] = "\n"
        /\ Len(txtOut) >= 2 => txtOut[Len(txtOut) - 1] # "\n"

\* every line of the written text, a trailing blank line included
WrittenLines == Lines(txtOut \o <<"\n">>)

\* the blocks lie in L at the offsets o, in order and without overlap, first
\* after index from
BlocksAt(L, groups, o, from) ==
    \A j \in 1..Len(groups) :
        /\ o[j] > (IF j = 1 THEN from ELSE o[j - 1] + Len(groups[j - 1]) - 1)
        /\ o[j] + Len(groups[j]) - 1 <= Len(L)
        /\ \A i \in 1..Len(groups[j]) : L[o[j] + i - 1] = groups[j][i]

\* C12: the lines of the written text come in a fixed order: the preamble
\* lines, the [Desktop Entry] header, all section comments directly after
\* the header, Type=Application, Name, one Name[<locale>] line per localized
\* name in order, Exec, X-GNOME-Autostart-enabled, Hidden, the retained
\* unrecognized pairs, then every other-section block in order; what lies
\* between these is blank.
C12_FixedLineOrder ==
    Written =>
        LET L == WrittenLines
            e == txtPrev
            p == Len(e.preamble)
            hs == { i \in (p + 1)..Len(L) : L[i] = kHeaderLine }
            h == CHOOSE i \in hs : \A j \in hs : i <= j
            c == Len(e.entry_comments)
            n == Len(e.localized_names)
            kept == SelectSeq(e.extra, NotDedicated)
            k == h + c + n + 5
            last == k + Len(kept)
        IN /\ hs # {}
           /\ \A i \in 1..p : L[i] = e.preamble[i]
           /\ \A i \in (p + 1)..(h - 1) : L[i] = <<>>
           /\ last <= Len(L)
           /\ \A i \in 1..c : L[h + i] = e.entry_comments[i]
           /\ L[h + c + 1] = kTypeLine
           /\ L[h + c + 2] = kName \o <<"=">> \o e.name
           /\ \A i \in 1..n :
                 L[h + c + 2 + i] = kNameBracket \o e.localized_names[i][1] \o <<"]", "=">>
                                       \o e.localized_names[i][2]
           /\ L[h + c + n + 3] = kExec \o <<"=">> \o e.command
           /\ StartsWith(L[h + c + n + 4], kAutostartEnabled \o <<"=">>)
           /\ StartsWith(L[k], kHidden \o <<"=">>)
           /\ \A i \in 1..Len(kept) : L[k + i] = kept[i][1] \o <<"=">> \o kept[i][2]
           /\ \E o \in [1..Len(e.other_groups) -> (last + 1)..(Len(L) + 1)] :
                 /\ BlocksAt(L, e.other_groups, o, last)
                 /\ \A i \in (last + 1)..Len(L) :
                       \/ L[i] = <<>>
                       \/ \E j \in 1..Len(e.other_groups) :
                             i \in o[j]..(o[j] + Len(e.other_groups[j]) - 1)

\* C12 witness: an entry with a preamble, a section comment, a localized
\* name, a retained pair and two other sections has been written
C12_Witness ==
    /\ Written
    /\ txtPrev.preamble # <<>>
    /\ txtPrev.entry_comments # <<>>
    /\ txtPrev.localized_names # <<>>
    /\ SelectSeq(txtPrev.extra, NotDedicated) # <<>>
    /\ Len(txtPrev.other_groups) = 2

----------------------------------------------------------------------------
(* Claims about what the parser makes of a file's lines. The lines are     *)
(* classified here by position, without running the parser.                *)

Parsed == txtIn # <<>> /\ txtCycles >= 1
Rendered == txtIn # <<>> /\ txtCycles = 2

InLines == Lines(txtIn[1])

IsHeaderLine(line) == IsHeader(Trim(line))
IsPrimaryHeader(line) ==
    IsHeaderLine(line) /\ TrimMatches(Trim(line), {"[", "]"}) = kDesktopEntry

\* the index of the section header line i is governed by: the last header at
\* or before i, 0 before the first header
HeaderBefore(L, i) ==
    LET hs == { h \in 1..i : IsHeaderLine(L[h]) }
    IN IF hs = {} THEN 0 ELSE CHOOSE h \in hs : \A j \in hs : j <= h

\* line i is a line of a [Desktop Entry] section, not a header
InPrimary(L, i) ==
    LET h == HeaderBefore(L, i)
    IN h > 0 /\ h < i /\ IsPrimaryHeader(L[h])

\* line i is a line of another section, its header included
InOther(L, i) ==
    LET h == HeaderBefore(L, i)
    IN h > 0 /\ ~IsPrimaryHeader(L[h])

IsCommentLine(line) == StartsWith(Trim(line), <<"#">>) \/ Trim(line) = <<>>

\* line i is a key=value line of a [Desktop Entry] section
IsAssignment(L, i) ==
    InPrimary(L, i) /\ ~IsCommentLine(L[i]) /\ SplitOnce(L[i], "=") # <<>>

KeyOf(line) == Trim(SplitOnce(line, "=")[1])
ValueOf(line) == Trim(SplitOnce(line, "=")[2])

\* the indices of L that satisfy Test, ascending
IndicesWhere(L, Test(_, _)) ==
    LET Keep(i) == Test(L, i)
    IN SelectSeq([i \in 1..Len(L) |-> i], Keep)

\* the (key, value) pairs of the key=value lines of the [Desktop Entry]
\* sections, in file order
Assignments(L) ==
    LET at == IndicesWhere(L, IsAssignment)
    IN [j \in 1..Len(at) |-> << KeyOf(L[at[j]]), ValueOf(L[at[j]]) >>]

PairsWithKey(pairs, key) ==
    LET Same(pair) == pair[1] = key
    IN SelectSeq(pairs, Same)

KeysOf(pairs) == { pairs[j][1] : j \in 1..Len(pairs) }

\* C13: the lines of the primary section that share an unrecognized key are
\* all kept by the parser as separate pairs of unrecognized_fields, in file
\* order, and the writer emits each of them as its own line in that order.
C13_DuplicateKeysKeptInOrder ==
    Parsed =>
        \A key \in KeysOf(Assignments(InLines)) :
            (~IsDedicatedKey(key) /\ Len(PairsWithKey(Assignments(InLines), key)) >= 2) =>
                /\ PairsWithKey(txtRec.extra, key) = PairsWithKey(Assignments(InLines), key)
                /\ Rendered =>
                      PairsWithKey(Assignments(Lines(txtOut)), key)
                          = PairsWithKey(Assignments(InLines), key)

\* a is b with some elements left out
RECURSIVE IsSubsequence(_, _)
IsSubsequence(a, b) ==
    IF a = <<>> THEN TRUE
    ELSE IF b = <<>> THEN FALSE
    ELSE IF Head(a) = Head(b) THEN IsSubsequence(Tail(a), Tail(b))
    ELSE IsSubsequence(a, Tail(b))

IsPreambleLine(L, i) == HeaderBefore(L, i) = 0
IsPrimaryComment(L, i) == InPrimary(L, i) /\ IsCommentLine(L[i])

LinesWhere(L, Test(_, _)) ==
    LET at == IndicesWhere(L, Test)
    IN [j \in 1..Len(at) |-> L[at[j]]]

\* the file's preamble lines and the comment lines of its primary section
\* are lines of the output, in the same relative order
KeepsPreambleAndComments ==
    /\ IsSubsequence(LinesWhere(InLines, IsPreambleLine), WrittenLines)
    /\ IsSubsequence(LinesWhere(InLines, IsPrimaryComment), WrittenLines)

\* every key=value line of the file's primary section whose key is a
\* Name[<locale>] key or an unrecognized key is a key=value line of the
\* output's primary section
KeepsNamesAndPairs ==
    LET in == Assignments(InLines)
        out == Assignments(WrittenLines)
    IN \A j \in 1..Len(in) :
          (in[j][1] \notin {kName, kExec, kHidden, kAutostartEnabled, kType}) =>
              \E m \in 1..Len(out) : out[m] = in[j]

\* the lines of the file's other sections are lines of the output, in order
KeepsOtherSections ==
    IsSubsequence(LinesWhere(InLines, InOther), WrittenLines)

\* C14: after parse, a mutation of name, command or enabled, and render,
\* every preamble line and every comment line of the original primary
\* section is in the output verbatim and in the same relative order, and the
\* localized names, the unrecognized pairs and the other-section lines of
\* the original are all still present.
C14_UnrelatedContentSurvivesMutation ==
    (Rendered /\ txtMutated) =>
        /\ KeepsPreambleAndComments
        /\ KeepsNamesAndPairs
        /\ KeepsOtherSections

NotInOther(L, i) == ~InOther(L, i)

IsOtherHeader(L, i) == IsHeaderLine(L[i]) /\ ~IsPrimaryHeader(L[i])

\* the lines from the header at h up to the line before the next header
BlockFrom(L, h) ==
    LET later == { i \in (h + 1)..Len(L) : IsHeaderLine(L[i]) }
        e == IF later = {} THEN Len(L) + 1
             ELSE CHOOSE i \in later : \A j \in later : i <= j
    IN SubSeq(L, h, e - 1)

\* the blocks of the sections other than [Desktop Entry], in file order
OtherBlocks(L) ==
    LET at == IndicesWhere(L, IsOtherHeader)
    IN [j \in 1..Len(at) |-> BlockFrom(L, at[j])]

\* C15: the lines of the sections other than [Desktop Entry] change none of
\* name, command, enabled, localized_names, unrecognized_fields and
\* section_comments (the file without them parses to the same values), and
\* each of them is kept verbatim in its section's block, which starts with
\* the section's header line.
C15_OtherSectionsLeaveFieldsAlone ==
    Parsed =>
        LET without == ParseContent(Unlines(LinesWhere(InLines, NotInOther)))
        IN /\ txtRec.name = without.name
           /\ txtRec.command = without.command
           /\ txtRec.enabled = without.enabled
           /\ txtRec.localized_names = without.localized_names
           /\ txtRec.extra = without.extra
           /\ txtRec.entry_comments = without.entry_comments
           /\ txtRec.other_groups = OtherBlocks(InLines)
           /\ \A j \in 1..Len(txtRec.other_groups) :
                 IsHeaderLine(txtRec.other_groups[j][1])

\* C15 witness: a file has been parsed in which another section holds a Name
\* line whose value is not the entry's name
C15_Witness ==
    /\ Parsed
    /\ \E i \in 1..Len(InLines) :
          /\ InOther(InLines, i)
          /\ ~IsHeaderLine(InLines[i])
          /\ SplitOnce(InLines[i], "=") # <<>>
          /\ KeyOf(InLines[i]) = kName
          /\ ValueOf(InLines[i]) # txtRec.name

IsEnabledKey(pair) == pair[1] \in {kHidden, kAutostartEnabled}

\* what an assignment to Hidden or to X-GNOME-Autostart-enabled says
EnabledSaidBy(pair) ==
    IF pair[1] = kHidden THEN pair[2] # kTrue ELSE pair[2] = kTrue

\* C16: after parsing, enabled is what the last Hidden or
\* X-GNOME-Autostart-enabled line of the primary section says, whichever of
\* the two keys that line has, and TRUE when there is no such line.
C16_LastEnabledLineWins ==
    Parsed =>
        LET said == SelectSeq(Assignments(InLines), IsEnabledKey)
        IN txtRec.enabled = (IF said = <<>> THEN TRUE ELSE EnabledSaidBy(said[Len(said)]))

\* C16 witness: a file has been parsed whose primary section holds both
\* keys, the two saying different things
C16_Witness ==
    /\ Parsed
    /\ LET said == SelectSeq(Assignments(InLines), IsEnabledKey)
       IN \E i, j \in 1..Len(said) :
             /\ i < j
             /\ said[i][1] # said[j][1]
             /\ EnabledSaidBy(said[i]) # EnabledSaidBy(said[j])

IsLocaleKey(key) == StartsWith(key, kNameBracket) /\ EndsWith(key, <<"]">>)

\* the key is none of Name, Name[<locale>], Exec, Hidden and
\* X-GNOME-Autostart-enabled
IsOtherKey(pair) ==
    /\ pair[1] \notin {kName, kExec, kHidden, kAutostartEnabled}
    /\ ~IsLocaleKey(pair[1])

HasLocaleKey(pair) == IsLocaleKey(pair[1])

\* C17: every key=value line of the primary section whose key is none of
\* Name, Name[<locale>], Exec, Hidden and X-GNOME-Autostart-enabled is
\* appended to unrecognized_fields, and every Name[<locale>] line to
\* localized_names, so that no key=value line is discarded.
C17_EveryOtherKeyIsRecorded ==
    Parsed =>
        LET in == Assignments(InLines)
            named == SelectSeq(in, HasLocaleKey)
        IN /\ txtRec.extra = SelectSeq(in, IsOtherKey)
           /\ txtRec.localized_names =
                 [j \in 1..Len(named) |->
                     << SubSeq(named[j][1], Len(kNameBracket) + 1, Len(named[j][1]) - 1),
                        named[j][2] >>]

\* the indices of the [Desktop Entry] header lines
PrimaryHeaders(L) == { i \in 1..Len(L) : IsPrimaryHeader(L[i]) }

\* the value of the last pair with the key, or the default
LastValue(pairs, key, default) ==
    LET with == PairsWithKey(pairs, key)
    IN IF with = <<>> THEN default ELSE with[Len(with)][2]

\* C18: a file with two [Desktop Entry] sections is parsed, and each of
\* name, command and enabled holds the value of its last assignment across
\* both sections in file order, a key assigned only in the first section
\* keeping that value.
C18_SecondSectionOverwrites ==
    (Parsed /\ Cardinality(PrimaryHeaders(InLines)) >= 2) =>
        LET in == Assignments(InLines)
            said == SelectSeq(in, IsEnabledKey)
        IN /\ txtRec.name = LastValue(in, kName, kUnnamed)
           /\ txtRec.command = LastValue(in, kExec, <<>>)
           /\ txtRec.enabled = (said = <<>> \/ EnabledSaidBy(said[Len(said)]))

\* C18 witness: a file has been parsed in which the first [Desktop Entry]
\* section assigns Name and the second assigns a different Name, which is
\* the entry's name
C18_Witness ==
    /\ Parsed
    /\ \E g, h \in PrimaryHeaders(InLines), i, j \in 1..Len(InLines) :
          /\ g < i /\ i < h /\ h < j
          /\ IsAssignment(InLines, i) /\ KeyOf(InLines[i]) = kName
          /\ IsAssignment(InLines, j) /\ KeyOf(InLines[j]) = kName
          /\ ValueOf(InLines[i]) # ValueOf(InLines[j])
          /\ txtRec.name = ValueOf(InLines[j])

----------------------------------------------------------------------------
(* Claims about the filter. Indices count from 1 here and from 0 in the    *)
(* code.                                                                   *)

Filtered == viewIn # <<>> /\ viewOut # <<>>

StateMatch(entry, f) ==
    \/ (f.show_enabled /\ entry.enabled)
    \/ (f.show_disabled /\ ~entry.enabled)
    \/ (~f.show_enabled /\ ~f.show_disabled)

ProvenanceMatch(entry, f) ==
    \/ (f.show_user /\ entry.source = UserAutostart)
    \/ (f.show_system /\ entry.source = SystemAutostart)
    \/ (~f.show_user /\ ~f.show_system)

Range(s) == { s[j] : j \in 1..Len(s) }

\* C19: for every entry list and every combination of the four toggles the
\* filter returns, ascending and without duplicates, exactly the indices
\* whose entry matches by state and by provenance; with both state toggles
\* off the result is the one with both on.
C19_FilterReturnsMatchingIndices ==
    Filtered =>
        LET es == viewIn[1].entries
            f == viewIn[1].filter
            out == viewOut[1]
        IN /\ \A j \in 1..(Len(out) - 1) : out[j] < out[j + 1]
           /\ Range(out) = { i \in 1..Len(es) : StateMatch(es[i], f) /\ ProvenanceMatch(es[i], f) }
           /\ (~f.show_enabled /\ ~f.show_disabled) =>
                 out = apply_filter(es, [f EXCEPT !.show_enabled = TRUE, !.show_disabled = TRUE])

\* C19 witness: the filter has been applied with both state toggles off to
\* a list with an enabled and a disabled entry, and has returned both
C19_Witness ==
    /\ Filtered
    /\ ~viewIn[1].filter.show_enabled
    /\ ~viewIn[1].filter.show_disabled
    /\ \E i, j \in Range(viewOut[1]) :
          viewIn[1].entries[i].enabled /\ ~viewIn[1].entries[j].enabled

\* C20: an entry whose source is neither UserAutostart nor SystemAutostart
\* is returned by the filter exactly when show_user and show_system are
\* both off and its state matches; it is left out whenever one of the two
\* toggles is on, the default filter with all four toggles on included.
C20_OtherProvenanceNeedsBothOff ==
    Filtered =>
        LET es == viewIn[1].entries
            f == viewIn[1].filter
            out == Range(viewOut[1])
        IN \A i \in 1..Len(es) :
              es[i].source \notin {UserAutostart, SystemAutostart} =>
                  /\ i \in out <=> (~f.show_user /\ ~f.show_system /\ StateMatch(es[i], f))
                  /\ (f.show_user \/ f.show_system) => i \notin out
                  /\ f = FilterDefault => i \notin out

\* C20 witness: the default filter has been applied to a list with a user
\* entry and a ShellProfile entry, and has returned the user entry
C20_Witness ==
    /\ Filtered
    /\ viewIn[1].filter = FilterDefault
    /\ \E i \in Range(viewOut[1]) : viewIn[1].entries[i].source = UserAutostart
    /\ \E i \in 1..Len(viewIn[1].entries) : viewIn[1].entries[i].source = ShellProfile

----------------------------------------------------------------------------
(* Claims about the sort. *)

Sorted == viewIn # <<>> /\ viewOut # <<>>

\* the attribute a sort key puts first
Preferred(entry, key) ==
    CASE key = "StatusEnabledFirst" -> entry.enabled
      [] key = "SourceUserFirst" -> entry.source = UserAutostart
      [] key = "SourceSystemFirst" -> entry.source = SystemAutostart

\* the names do not descend, compared without regard to case
NameNotAfter(ea, eb) == CmpStr(ToLowercase(ea.name), ToLowercase(eb.name)) <= 0

IsPermutationOf(out, indices) ==
    /\ Len(out) = Len(indices)
    /\ Range(out) = Range(indices)

\* C21: for StatusEnabledFirst, SourceUserFirst and SourceSystemFirst the
\* sort returns a permutation of the input indices in which every entry
\* with the preferred attribute precedes every entry without it, and each
\* of the two groups is in ascending case-insensitive name order.
C21_PreferredGroupFirst ==
    (Sorted /\ viewIn[1].sort \in {"StatusEnabledFirst", "SourceUserFirst", "SourceSystemFirst"}) =>
        LET es == viewIn[1].entries
            key == viewIn[1].sort
            out == viewOut[1]
        IN /\ IsPermutationOf(out, viewIn[1].indices)
           /\ \A i, j \in 1..Len(out) :
                 i < j =>
                     /\ ~(~Preferred(es[out[i]], key) /\ Preferred(es[out[j]], key))
                     /\ (Preferred(es[out[i]], key) = Preferred(es[out[j]], key))
                           => NameNotAfter(es[out[i]], es[out[j]])

\* C21 witness: three entries have been sorted by StatusEnabledFirst, a
\* disabled one and two enabled ones with different names, and the result
\* is not the order they were given in
C21_Witness ==
    /\ Sorted
    /\ viewIn[1].sort = "StatusEnabledFirst"
    /\ Len(viewOut[1]) = 3
    /\ viewOut[1] # viewIn[1].indices
    /\ LET es == viewIn[1].entries
       IN \E i, j, k \in 1..3 :
             /\ es[i].enabled /\ es[j].enabled /\ ~es[k].enabled
             /\ ToLowercase(es[i].name) # ToLowercase(es[j].name)

\* C22: for every sort key the result depends on the entries and the
\* comparator alone, not on the order the indices are given in: the sort of
\* any order of the indices is the sort of the ascending order, also when
\* two entries have names that are equal ignoring case.
C22_ResultIndependentOfInputOrder ==
    Sorted =>
        LET es == viewIn[1].entries
        IN viewOut[1] = sort_indices(es, [i \in 1..Len(es) |-> i], viewIn[1].sort)

IsAsciiInitial(entry) == entry.name # <<>> /\ Code(Head(entry.name)) < 128

\* C23: NameAsc orders the indices by the lowercased name compared code
\* point by code point, so that a name with an ASCII initial precedes a name
\* whose initial is not ASCII, whatever the localized names are; NameDesc is
\* the same comparison with the operands swapped.
C23_NameOrderIsByCodePoint ==
    (Sorted /\ viewIn[1].sort \in {"NameAsc", "NameDesc"}) =>
        LET es == viewIn[1].entries
            out == viewOut[1]
            asc == viewIn[1].sort = "NameAsc"
        IN /\ IsPermutationOf(out, viewIn[1].indices)
           /\ \A i, j \in 1..Len(out) :
                 i < j =>
                     /\ asc => NameNotAfter(es[out[i]], es[out[j]])
                     /\ ~asc => NameNotAfter(es[out[j]], es[out[i]])
                     /\ asc => ~(~IsAsciiInitial(es[out[i]]) /\ IsAsciiInitial(es[out[j]]))

\* C23 witness: NameAsc has sorted an entry named with a non-ASCII initial,
\* whose localized name starts with a, and an entry named B that was given
\* after it: B comes first
C23_Witness ==
    /\ Sorted
    /\ viewIn[1].sort = "NameAsc"
    /\ Len(viewOut[1]) >= 2
    /\ LET es == viewIn[1].entries
           first == es[viewIn[1].indices[1]]
       IN /\ ~IsAsciiInitial(first)
          /\ first.localized_names # <<>>
          /\ es[viewOut[1][1]].name = <<"B">>

----------------------------------------------------------------------------
(* Claims about slugify. *)

Slugged == viewIn # <<>> /\ viewOut # <<>>

IsSeparator(c) == c \in {" ", "\t", "\n", "\r", "-", "_"}

\* a letter or a digit, of ASCII or not
IsAlphanumeric(c) == IsAsciiAlphanumeric(c) \/ c \in {"Ä", "ä"}

\* C24: for every input without an alphanumeric character (only punctuation,
\* only hyphens or underscores, only whitespace) slugify returns "entry".
C24_NoAlphanumericGivesEntry ==
    (Slugged /\ \A i \in 1..Len(viewIn[1]) : ~IsAlphanumeric(viewIn[1][i])) =>
        viewOut[1] = kEntry

IsSlugChar(c) == IsAsciiLower(c) \/ IsAsciiDigit(c) \/ c = "-"

\* what is left of the input when the characters that are neither ASCII
\* letters or digits nor separators are taken out, the letters lowercased
\* and every separator turned into a hyphen
KeptAndMapped(name) ==
    LET Kept(c) == IsAsciiAlphanumeric(c) \/ IsSeparator(c)
        kept == SelectSeq(name, Kept)
    IN [i \in 1..Len(kept) |->
           IF IsSeparator(kept[i]) THEN "-" ELSE ToAsciiLowercase(kept[i])]

\* s with each run of hyphens reduced to its first hyphen
RECURSIVE Collapsed(_)
Collapsed(s) ==
    IF Len(s) <= 1 THEN s
    ELSE IF s[1] = "-" /\ s[2] = "-" THEN Collapsed(Tail(s))
    ELSE << s[1] >> \o Collapsed(Tail(s))

\* C25: for every input slugify returns a non-empty string of lowercase
\* ASCII letters, digits and hyphens without two hyphens in a row: every
\* ASCII letter or digit is kept lowercased, every maximal run of
\* whitespace, hyphen and underscore characters, stripped characters inside
\* it notwithstanding, gives one hyphen, and every other character is
\* removed.
C25_SlugShape ==
    Slugged =>
        LET out == viewOut[1]
            expected == Collapsed(KeptAndMapped(viewIn[1]))
        IN /\ out # <<>>
           /\ \A i \in 1..Len(out) : IsSlugChar(out[i])
           /\ \A i \in 1..(Len(out) - 1) : ~(out[i] = "-" /\ out[i + 1] = "-")
           /\ expected # <<>> => out = expected

\* C25 witness: slugify has been applied to a name in which a stripped
\* character stands between two separators, which gives one hyphen
C25_Witness ==
    /\ Slugged
    /\ Len(viewIn[1]) >= 3
    /\ \E i \in 2..(Len(viewIn[1]) - 1) :
          /\ IsSeparator(viewIn[1][i - 1])
          /\ viewIn[1][i] = "$"
          /\ IsSeparator(viewIn[1][i + 1])
    /\ viewOut[1] = <<"-">>

----------------------------------------------------------------------------
(* Claims about the dialogs, the reload and what a write is derived from. *)

IsBlank(s) == Trim(s) = <<>>

\* the add or edit dialog was answered with a blank name or a blank command
BlankTyped == typed # <<>> /\ (IsBlank(typed[1]) \/ IsBlank(typed[2]))

\* C26: creating or editing an entry with a name or a command that is empty
\* or only whitespace is rejected, and then no directory has been created
\* and no file has been written, replaced or removed.
C26_BlankInputIsRejected ==
    BlankTyped =>
        /\ pc = "idle"
        /\ ~result.ok
        /\ result.op \in {"create", "edit"}
        /\ userDir = snap.userDir
        /\ disk = snap.disk
        /\ tmp = <<>>
        /\ trace = <<>>

\* C26 witness: the add dialog was answered with a blank name or command
\* while the user autostart directory did not exist
C26_Witness ==
    /\ BlankTyped
    /\ result.op = "create"
    /\ ~snap.userDir

----------------------------------------------------------------------------
(* Claims about the load. *)

Loaded == viewIn # <<>> /\ viewOut # <<>>

\* the file can be read as text
Readable(node) == node.kind \in {"file", "symlink"}

\* C27: when a candidate file cannot be read or parsed, only that file is
\* skipped: the load succeeds and returns, in listing order, one entry for
\* every other candidate file of the user directory and then of the system
\* directory, each parsed from its own file.
C27_FailedFileIsSkippedAlone ==
    (Loaded /\ (viewIn[1].dir => viewIn[1].readDirOk)) =>
        LET in == viewIn[1]
            UserRead(f) == in.dir /\ Readable(in.nodes[f])
            SysRead(f) == Readable(in.sys[f])
            user == SelectSeq(in.listing, UserRead)
            system == SelectSeq(<< fS >>, SysRead)
            out == viewOut[1]
        IN /\ out # <<>>
           /\ Len(out[1]) = Len(user) + Len(system)
           /\ \A i \in 1..Len(user) :
                 LET e == out[1][i]
                     f == ParseContent(in.nodes[user[i]].content)
                 IN /\ e.path = << PathOf(UserDirName, user[i]) >>
                    /\ e.source = UserAutostart
                    /\ e.name = f.name /\ e.command = f.command /\ e.enabled = f.enabled
           /\ \A i \in 1..Len(system) :
                 LET e == out[1][Len(user) + i]
                     f == ParseContent(in.sys[system[i]].content)
                 IN /\ e.path = << PathOf(SystemDirName, system[i]) >>
                    /\ e.source = SystemAutostart
                    /\ e.name = f.name /\ e.command = f.command /\ e.enabled = f.enabled

\* C27 witness: the user directory was loaded with an unreadable file listed
\* first and a readable one after it, and both that one and the system
\* directory's file were returned
C27_Witness ==
    /\ Loaded
    /\ viewIn[1].dir
    /\ Len(viewIn[1].listing) = 2
    /\ ~Readable(viewIn[1].nodes[viewIn[1].listing[1]])
    /\ Readable(viewIn[1].nodes[viewIn[1].listing[2]])
    /\ viewOut[1] # <<>>
    /\ Len(viewOut[1][1]) = 2

----------------------------------------------------------------------------
(* Claims about a write made from a stale entry. *)

\* the entry the last handler found selected, << e >>, or <<>>
SelectedAtStart ==
    IF snap.selected # <<>> /\ snap.selected[1] \in DOMAIN snap.entries
    THEN << snap.entries[snap.selected[1]] >>
    ELSE <<>>

\* the last handler is a toggle or an edit of a user entry whose file held,
\* when the handler started, other content than the entry was loaded from
StaleTarget ==
    /\ result.op \in {"toggle", "edit"}
    /\ SelectedAtStart # <<>>
    /\ LET e == SelectedAtStart[1]
       IN /\ e.source = UserAutostart
          /\ e.path # <<>>
          /\ snap.disk[e.path[1].file].kind = "file"
          /\ parse_desktop_file(e.path[1], snap.disk[e.path[1].file], UserAutostart) # << e >>

\* the entry that is written: the stale entry with the requested mutation
MutatedStale ==
    LET e == SelectedAtStart[1]
    IN IF result.op = "toggle" THEN [e EXCEPT !.enabled = ~@]
       ELSE [e EXCEPT !.name = typed[1], !.command = typed[2]]

\* C28: when another process has changed a user entry's file after the load
\* and before a toggle or edit of that entry, the change is neither detected
\* nor merged: the guard lets the operation through, the file ends up with
\* the content rendered from the stale entry plus the requested mutation,
\* and the operation returns success.
C28_StaleEntryOverwritesFile ==
    StaleTarget =>
        /\ result.step # "guard"
        /\ InTrace("persist") =>
              /\ disk[SelectedAtStart[1].path[1].file] = File(RenderContent(MutatedStale))
              /\ (pc \notin {"w_done", "crashed"} /\ result.step # "refresh") =>
                    (pc = "idle" /\ result = Ok(result.op))

\* C29: a toggle of a selected user entry whose guarded write succeeded
\* reloads the collection and returns success; the reload never replaces
\* the collection while the toggle still holds its mutable borrow of it, so
\* no double-borrow failure is reachable.
C29_ToggleReloadsWithoutDoubleBorrow ==
    /\ pc # "panicked"
    /\ (pc = "w_done" /\ op.kind = "toggle") => ~borrowed
    /\ (result.op = "toggle" /\ InTrace("persist") /\ pc = "idle"
          /\ result.step # "refresh") => result = Ok("toggle")

----------------------------------------------------------------------------
(* Claims about what toggle and edit leave alone. *)

\* the collection in memory has not been replaced by a reload since the last
\* handler started
NotReloaded == ~(pc = "idle" /\ result.ok)

\* every entry has the source and the path it had when the handler started
SourcesAndPathsKept ==
    /\ DOMAIN entries = DOMAIN snap.entries
    /\ \A i \in DOMAIN entries :
          /\ entries[i].source = snap.entries[i].source
          /\ entries[i].path = snap.entries[i].path

\* the last handler is an edit of an entry that has a path, past the dialog
EditOfPathEntry ==
    /\ result.op = "edit"
    /\ typed # <<>>
    /\ SelectedAtStart # <<>>
    /\ SelectedAtStart[1].source = UserAutostart
    /\ SelectedAtStart[1].path # <<>>

\* the entry the edit writes
EditedEntry == [SelectedAtStart[1] EXCEPT !.name = typed[1], !.command = typed[2]]

----------------------------------------------------------------------------
(* Claims about the selection. *)

\* the selected index is one of the visible indices and an index of entries
SelectionInView ==
    selected # <<>> =>
        /\ \E r \in DOMAIN visible_indices : visible_indices[r] = selected[1]
        /\ selected[1] \in DOMAIN entries

\* a step that rebuilt the list into something else, or for another filter
\* or sort key
ListRebuilt ==
    \/ visible_indices' # visible_indices
    \/ filter' # filter
    \/ sort' # sort
    \/ Len(entries') # Len(entries)

\* C31: in every reachable state a selected index, when present, is one of
\* the visible indices and within the bounds of the entry collection (so an
\* empty list, whose only row is the placeholder, has nothing selected), and
\* every rebuild of the list clears the selection.
C31_SelectionStaysInView ==
    /\ [](SelectionInView /\ (visible_indices = <<>> => selected = <<>>))
    /\ [][ListRebuilt => selected' = <<>>]_vars

\* an entry is selected in a list that was filtered and sorted through the
\* dialogs, at a row whose number is not the entry's index
C31_Witness ==
    /\ selected # <<>>
    /\ sort = "NameDesc"
    /\ ~filter.show_system
    /\ Len(visible_indices) < Len(entries)
    /\ \E r \in DOMAIN visible_indices : visible_indices[r] = selected[1] /\ r # selected[1]

----------------------------------------------------------------------------
(* Claims about create and a file that is already there. *)

\* the last handler is a create with a name and a command that are not blank
CreateRan ==
    /\ result.op = "create"
    /\ typed # <<>>
    /\ Trim(typed[1]) # <<>>
    /\ Trim(typed[2]) # <<>>

\* the path create derives from the typed name
CreateTarget == SlugPath(typed[1])

\* a regular file was at that path when create started
TargetExisted ==
    /\ snap.userDir
    /\ snap.disk[CreateTarget.file].kind = "file"

\* the fresh record: the typed name and command and nothing else
FreshContent == RenderContent(CreatedEntry(typed[1], typed[2], CreateTarget))

\* C32: create writes to <user autostart dir>/<slugify(name)>.desktop and
\* checks no uniqueness: when a regular file is already at that path the
\* guard lets create through, the file's whole content is replaced by a
\* fresh record of the new name and command, and create returns success.
C32_CreateReplacesExistingFile ==
    CreateRan =>
        /\ (op # NoOp /\ op.kind = "create") =>
              (op.path = CreateTarget /\ op.entry = CreatedEntry(typed[1], typed[2], CreateTarget))
        /\ TargetExisted =>
              /\ result.step # "guard"
              /\ InTrace("persist") =>
                    /\ disk[CreateTarget.file] = File(FreshContent)
                    /\ \A f \in UserFiles : f # CreateTarget.file => disk[f] = snap.disk[f]
                    /\ (pc = "idle" /\ result.step # "refresh") => result = Ok("create")

\* create has returned success over a file that held a disabled entry with
\* a comment: the file now holds the fresh record only
C32_Witness ==
    /\ CreateRan
    /\ TargetExisted
    /\ result = Ok("create")
    /\ snap.disk[CreateTarget.file] = File(tB)
    /\ tB # FreshContent
    /\ disk[CreateTarget.file] = File(FreshContent)

====
